---------------------------- MODULE Spec2Model ----------------------------
(***************************************************************************)
(* A model of volkswagencarnet's Connection (vw_connection.py): the        *)
(* session state, the token validity check and refresh, the HTTP verb      *)
(* wrappers with their rate-limit retry, and the login / update entry      *)
(* points.                                                                 *)
(*                                                                         *)
(* The coroutines are modelled as an interpreter over a stack of frames:   *)
(* a frame is one activation of a method, `pc` its position between two    *)
(* awaits, `loc` its local variables.  `await f()` pushes a frame for f,   *)
(* a return or a raise pops it and leaves the outcome in `ret`.  The       *)
(* server is the environment: every response is a nondeterministic choice. *)
(***************************************************************************)
EXTENDS Integers, Sequences, FiniteSets, TLC

VARIABLES
    logged_in,        \* Connection._session_logged_in
    tokens,           \* Connection._session_tokens: label -> token set (a dict)
    auth,             \* Connection._session_headers["Authorization"], or NoHeader
    service_status,   \* Connection._service_status: category -> health
    jar,              \* Connection._jarCookie: cookie name -> value
    vehicles,         \* Connection._vehicles, as the number of Vehicle objects
    refresh_interval, \* Connection._session_refresh_interval
    now,              \* the wall clock read by datetime.now()
    stack,            \* per task: the frames of the running coroutine chain
    ret,              \* per task: the outcome of the last frame that ended
    login_ok          \* history: some _login has run to its successful end

vars == <<logged_in, tokens, auth, service_status, jar, vehicles, refresh_interval,
          now, stack, ret, login_ok>>

session == <<logged_in, tokens, auth, service_status, jar, vehicles, refresh_interval, login_ok>>

-----------------------------------------------------------------------------
(* Bounds of the model *)

MaxTime == 2
MaxExp == 2
MaxInterval == 1
MaxDepth == 3
MaxVehicles == 1

(* Program constants *)

MAX_RETRIES_ON_RATE_LIMIT == 3

SeqTasks == {1}
\* the tasks that asyncio.gather runs side by side for update(), lines 545-551
Workers == {2, 3}
Tasks == SeqTasks \cup Workers

-----------------------------------------------------------------------------
(* Values *)

NoHeader == <<>>
\* Python's None, True and False as values a coroutine returns
None == [none |-> TRUE]
Bool(b) == [bool |-> b]
True == Bool(TRUE)
False == Bool(FALSE)
Bearer(tok) == <<"Bearer ", tok>>

EmptyDict == [k \in {} |-> None]

\* dict.update / item assignment of every key of b into a
DictMerge(a, b) == [k \in DOMAIN a \cup DOMAIN b |-> IF k \in DOMAIN b THEN b[k] ELSE a[k]]

DictSet(a, k, v) == DictMerge(a, k :> v)

Envelope(n) == [kind |-> "envelope", status_code |-> n]
Json(body) == [kind |-> "json", body |-> body]
Raw(code, body) == [kind |-> "raw", status |-> code, body |-> body]

\* Outcomes of a frame
Value(v) == [exc |-> "none", val |-> v, code |-> 0]
Raise(kind, code) == [exc |-> kind, val |-> None, code |-> code]

-----------------------------------------------------------------------------
(* The environment: what the server may answer *)

Statuses == {200, 204, 400, 401, 429, 500}
Bodies == {"data", "empty", "garbage"}
Cookies == {"c"}

\* the cookies one response may set: none, or a value for each name
CookieJars == {EmptyDict} \cup [Cookies -> {1, 2}]

\* URLs are modelled by the set of the status-tracker markers they contain.
URL_VEHICLES == {"vehicle/v2/vehicles"}
URL_PENDING == {"pendingrequests"}
URL_CHARGING == {"charging"}
URL_CLIMATE_SETTINGS == {"climatisation/settings"}
URL_TOKEN == {"token"}
URL_SPIN == {"spin/state"}
URL_LOCK == {"access/lock"}
URL_UNLOCK == {"access/unlock"}

-----------------------------------------------------------------------------
(* Frames *)

\* The session as a step leaves it: a frame records it when it starts (`pre`),
\* an outcome when the frame ends (`post`).  In every action the primed
\* session variables are set before the conjunct that uses this.
Snapshot == [logged_in |-> logged_in', tokens |-> tokens', auth |-> auth']

\* `reqs` counts the requests, `checks` the validate_tokens calls that the
\* frame and the calls it made have completed (history only)
Frame(fn, loc) ==
    [fn |-> fn, pc |-> "start", loc |-> loc, reqs |-> 0, checks |-> 0, pre |-> Snapshot]

Idle(t) == stack[t] = <<>>
Top(t) == stack[t][Len(stack[t])]
At(t, fn, pc) == ~Idle(t) /\ Top(t).fn = fn /\ Top(t).pc = pc

SetTop(s, f) == [s EXCEPT ![Len(s)] = f]
Pop(s) == SubSeq(s, 1, Len(s) - 1)

\* a top-level call of a public method
Begin(t, f) ==
    /\ Idle(t)
    /\ stack' = [stack EXCEPT ![t] = <<f>>]
    /\ ret' = [ret EXCEPT ![t] = [fn |-> "none"]]

\* `await f(...)`: the caller moves to `after`, the callee starts
CallWith(t, after, loc, f) ==
    /\ stack' = [stack EXCEPT ![t] =
                    Append(SetTop(@, [Top(t) EXCEPT !.pc = after, !.loc = loc]), f)]
    /\ ret' = ret

Call(t, after, f) == CallWith(t, after, Top(t).loc, f)

\* stay in the frame, at another position and with other locals
Goto(t, pc, loc) ==
    /\ stack' = [stack EXCEPT ![t] = SetTop(@, [Top(t) EXCEPT !.pc = pc, !.loc = loc])]
    /\ ret' = ret

\* one network request issued by the top frame itself
Sent(t, pc, loc) ==
    /\ stack' = [stack EXCEPT ![t] =
                    SetTop(@, [Top(t) EXCEPT !.pc = pc, !.loc = loc, !.reqs = @ + 1])]
    /\ ret' = ret

\* the frame ends with outcome `out`; the caller is charged its requests
ReturnWith(t, loc, out) ==
    LET f == [Top(t) EXCEPT !.loc = loc]
        rest == Pop(stack[t])
    IN  /\ stack' = [stack EXCEPT ![t] =
                        IF rest = <<>> THEN rest
                        ELSE SetTop(rest, [rest[Len(rest)] EXCEPT
                                             !.reqs = @ + f.reqs,
                                             !.checks = @ + f.checks +
                                                 IF f.fn = "validate_tokens" THEN 1 ELSE 0])]
        /\ ret' = [ret EXCEPT ![t] =
                      [fn |-> f.fn, exc |-> out.exc, val |-> out.val, code |-> out.code,
                       loc |-> f.loc, reqs |-> f.reqs, pre |-> f.pre,
                       post |-> Snapshot]]

Return(t, out) == ReturnWith(t, Top(t).loc, out)

\* the outcome of the callee that just returned to the top frame
Got(t) == [exc |-> ret[t].exc, val |-> ret[t].val, code |-> ret[t].code]

-----------------------------------------------------------------------------
(* update_service_status, lines 956-984 *)

\* a mapping that has forgotten 207
StatusOfWithout207(response_code) ==
    IF response_code \in {200, 204} THEN "Up"
    ELSE IF response_code = 401 THEN "Unauthorized"
    ELSE IF response_code = 403 THEN "Forbidden"
    ELSE IF response_code = 429 THEN "Rate limited"
    ELSE IF response_code = 1000 THEN "Error"
    ELSE "Down"

\* lines 958-969
StatusOf(response_code) ==
    IF response_code \in {200, 204, 207} THEN "Up"
    ELSE IF response_code = 401 THEN "Unauthorized"
    ELSE IF response_code = 403 THEN "Forbidden"
    ELSE IF response_code = 429 THEN "Rate limited"
    ELSE IF response_code = 1000 THEN "Error"
    ELSE "Down"

\* a tracker that looks for the token URL first
CategoryOfTokenFirst(url) ==
    IF "token" \in url THEN "token"
    ELSE IF "vehicle/v2/vehicles" \in url THEN "vehicles"
    ELSE IF "parkingposition" \in url THEN "parkingposition"
    ELSE IF "/vehicle/v1/trips/" \in url THEN "trips"
    ELSE IF "capabilities" \in url THEN "capabilities"
    ELSE IF "selectivestatus" \in url THEN "selectivestatus"
    ELSE "unhandled"

\* lines 971-984
CategoryOf(url) ==
    IF "vehicle/v2/vehicles" \in url THEN "vehicles"
    ELSE IF "parkingposition" \in url THEN "parkingposition"
    ELSE IF "/vehicle/v1/trips/" \in url THEN "trips"
    ELSE IF "capabilities" \in url THEN "capabilities"
    ELSE IF "selectivestatus" \in url THEN "selectivestatus"
    ELSE IF "token" \in url THEN "token"
    ELSE "unhandled"

update_service_status(status, url, response_code) ==
    IF CategoryOf(url) = "unhandled" THEN status
    ELSE DictSet(status, CategoryOf(url), StatusOf(response_code))

\* update_service_status called with one url and one response code
ReportStatus(t, urls, codes) ==
    /\ Idle(t)
    /\ \E url \in urls, code \in codes :
          /\ service_status' = update_service_status(service_status, url, code)
          /\ ret' = [ret EXCEPT ![t] = [fn |-> "update_service_status", url |-> url,
                                        response_code |-> code, before |-> service_status]]
    /\ UNCHANGED <<logged_in, tokens, auth, jar, vehicles, refresh_interval, login_ok, now,
                   stack>>

-----------------------------------------------------------------------------
(* _request, lines 395-457 *)

\* the request leaves with the shared headers and cookies as they are now
RequestSend(t) ==
    /\ At(t, "_request", "start")
    /\ Sent(t, "await",
            [Top(t).loc EXCEPT !.sent_auth = auth, !.sent_logged_in = logged_in,
                               !.sent_cookies = jar])
    /\ UNCHANGED <<session, now>>

\* response.raise_for_status() of aiohttp
RaisesForStatus(code) == code >= 400

\* lines 421-449: what _request hands back for a response that did not raise
RequestResult(code, body, return_raw) ==
    IF return_raw THEN Raw(code, body)
    ELSE IF code = 204 THEN Envelope(code)
    ELSE IF code >= 200 \/ code <= 300
         THEN (IF body = "garbage" THEN Json("empty") ELSE Json(body))
    ELSE Json("empty")

\* a _request that reports only the responses that did not raise
RequestReportsSuccessOnly(exc, code) == IF exc = "none" THEN <<code>> ELSE <<>>

\* lines 419, 452 and 456: the codes _request hands to update_service_status,
\* by the way the request ended
RequestReports(exc, code) ==
    IF exc \in {"none", "ClientResponseError"} THEN <<code>> ELSE <<1000>>

RECURSIVE ReportAll(_, _, _)
ReportAll(status, url, codes) ==
    IF codes = <<>> THEN status
    ELSE ReportAll(update_service_status(status, url, Head(codes)), url, Tail(codes))

\* the session's transport fails (timeout, connection error): line 454
RequestFails(t) ==
    /\ At(t, "_request", "await")
    /\ UNCHANGED <<logged_in, tokens, auth, jar, vehicles, refresh_interval, login_ok, now>>
    /\ LET codes == RequestReports("Transport", 0)
       IN  /\ service_status' = ReportAll(service_status, Top(t).loc.url, codes)
           /\ ReturnWith(t, [Top(t).loc EXCEPT !.status = 1000, !.reports = @ \o codes],
                         Raise("Transport", 1000))

\* a store that keeps only the cookies of the last response
JarReplaced(store, cookies) == cookies

\* lines 411-416: the cookies of a response are merged into the store (the store
\* starts as "" and becomes the first response's cookies; from then on update())
JarUpdate(store, cookies) == DictMerge(store, cookies)

\* a response arrives: lines 409-453
RequestResponse(t, statuses, bodies, cookiesets) ==
    /\ At(t, "_request", "await")
    /\ \E code \in statuses, body \in bodies, cookies \in cookiesets :
          LET outcome == IF RaisesForStatus(code)
                         THEN Raise("ClientResponseError", code)
                         ELSE Value(RequestResult(code, body, Top(t).loc.return_raw))
              codes == RequestReports(outcome.exc, code)
          IN  /\ service_status' = ReportAll(service_status, Top(t).loc.url, codes)
              /\ jar' = IF RaisesForStatus(code) THEN jar ELSE JarUpdate(jar, cookies)
              /\ UNCHANGED <<logged_in, tokens, auth, vehicles, refresh_interval, login_ok,
                             now>>
              /\ ReturnWith(t, [Top(t).loc EXCEPT !.status = code, !.reports = @ \o codes,
                                                  !.received = cookies],
                            outcome)

\* `reports` lists the codes handed to update_service_status, `received` the
\* cookies of the response (history only)
RequestFrame(method, url, return_raw) ==
    Frame("_request", [method |-> method, url |-> url, return_raw |-> return_raw, status |-> 0,
                       reports |-> <<>>,
                       sent_auth |-> NoHeader, sent_logged_in |-> FALSE,
                       sent_cookies |-> EmptyDict, received |-> EmptyDict])


-----------------------------------------------------------------------------
(* get / post / put, lines 459-516 *)

Verbs == {"get", "post", "put"}

VerbFrame(fn, url, tries, return_raw) ==
    Frame(fn, [url |-> url, tries |-> tries, return_raw |-> return_raw, answers |-> <<>>,
               received |-> EmptyDict])

MethodOf(fn) == IF fn = "get" THEN "GET" ELSE IF fn = "post" THEN "POST" ELSE "PUT"

\* a handler that allows one retry more than the limit
GetRetriesOnceMore(status, tries) ==
    IF status = 400 THEN [act |-> "envelope", logout |-> FALSE]
    ELSE IF status = 401 THEN [act |-> "envelope", logout |-> TRUE]
    ELSE IF status = 429 /\ tries <= MAX_RETRIES_ON_RATE_LIMIT
         THEN [act |-> "retry", logout |-> FALSE]
    ELSE [act |-> "envelope", logout |-> FALSE]

\* get's handler of ClientResponseError, lines 464-484
GetOnError(status, tries) ==
    IF status = 400 THEN [act |-> "envelope", logout |-> FALSE]
    ELSE IF status = 401 THEN [act |-> "envelope", logout |-> TRUE]
    ELSE IF status = 429 /\ tries < MAX_RETRIES_ON_RATE_LIMIT
         THEN [act |-> "retry", logout |-> FALSE]
    ELSE [act |-> "envelope", logout |-> FALSE]

\* a handler that gives the status back instead of raising
PostReturnsEnvelope(status, tries) ==
    IF status = 429 /\ tries < MAX_RETRIES_ON_RATE_LIMIT
    THEN [act |-> "retry", logout |-> FALSE]
    ELSE [act |-> "envelope", logout |-> FALSE]

\* post's handler of ClientResponseError, lines 493-500
PostOnError(status, tries) ==
    IF status = 429 /\ tries < MAX_RETRIES_ON_RATE_LIMIT
    THEN [act |-> "retry", logout |-> FALSE]
    ELSE [act |-> "raise", logout |-> FALSE]

\* a handler that also retries the errors of the server
PutRetriesServerErrors(status, tries) ==
    IF status \in {429, 500} /\ tries < MAX_RETRIES_ON_RATE_LIMIT
    THEN [act |-> "retry", logout |-> FALSE]
    ELSE [act |-> "raise", logout |-> FALSE]

\* put's handler of ClientResponseError, lines 509-516
PutOnError(status, tries) ==
    IF status = 429 /\ tries < MAX_RETRIES_ON_RATE_LIMIT
    THEN [act |-> "retry", logout |-> FALSE]
    ELSE [act |-> "raise", logout |-> FALSE]

OnError(fn, status, tries) ==
    IF fn = "get" THEN GetOnError(status, tries)
    ELSE IF fn = "post" THEN PostOnError(status, tries)
    ELSE PutOnError(status, tries)

\* lines 462, 490-492, 506-508: the verb hands the call to _request
VerbRequest(t) ==
    /\ ~Idle(t) /\ Top(t).fn \in Verbs /\ Top(t).pc = "start"
    /\ UNCHANGED <<session, now>>
    /\ Call(t, "resume",
            RequestFrame(MethodOf(Top(t).fn), Top(t).loc.url, Top(t).loc.return_raw))

\* the statuses this activation was answered with, and the cookies of the
\* response when it was a successful one (history only)
Answered(t) ==
    [Top(t).loc EXCEPT !.answers = <<ret[t].loc.status>>,
                       !.received = IF ret[t].exc = "none" THEN ret[t].loc.received
                                    ELSE EmptyDict]

\* _request returned a result: the verb returns it (lines 463, 490, 506)
VerbResult(t) ==
    /\ ~Idle(t) /\ Top(t).fn \in Verbs /\ Top(t).pc = "resume"
    /\ ret[t].exc = "none"
    /\ UNCHANGED <<session, now>>
    /\ ReturnWith(t, Answered(t), Got(t))

\* _request raised something that is no ClientResponseError: not caught here
VerbPropagates(t) ==
    /\ ~Idle(t) /\ Top(t).fn \in Verbs /\ Top(t).pc = "resume"
    /\ ret[t].exc \notin {"none", "ClientResponseError"}
    /\ UNCHANGED <<session, now>>
    /\ ReturnWith(t, Answered(t), Got(t))

\* _request raised ClientResponseError: the except clause of the verb
VerbHandlesError(t) ==
    /\ ~Idle(t) /\ Top(t).fn \in Verbs /\ Top(t).pc = "resume"
    /\ ret[t].exc = "ClientResponseError"
    /\ LET f == Top(t)
           h == OnError(f.fn, ret[t].code, f.loc.tries)
       IN  /\ logged_in' = IF h.logout THEN FALSE ELSE logged_in
           /\ UNCHANGED <<tokens, auth, service_status, jar, vehicles, refresh_interval,
                          login_ok, now>>
           /\ CASE h.act = "retry" -> Goto(t, "sleep", Answered(t))
                [] h.act = "envelope" ->
                     ReturnWith(t, Answered(t), Value(Envelope(ret[t].code)))
                [] OTHER -> ReturnWith(t, Answered(t), Got(t))

\* asyncio.sleep(delay) is over (the delay itself is not modelled):
\* return await self.<verb>(url, vin, tries + 1)
VerbRetry(t) ==
    /\ ~Idle(t) /\ Top(t).fn \in Verbs /\ Top(t).pc = "sleep"
    /\ UNCHANGED <<session, now>>
    /\ Call(t, "retried",
            VerbFrame(Top(t).fn, Top(t).loc.url, Top(t).loc.tries + 1, Top(t).loc.return_raw))

\* the retry's outcome, result or exception, is the call's outcome
VerbRetried(t) ==
    /\ ~Idle(t) /\ Top(t).fn \in Verbs /\ Top(t).pc = "retried"
    /\ UNCHANGED <<session, now>>
    /\ ReturnWith(t, [Top(t).loc EXCEPT !.answers = @ \o ret[t].loc.answers,
                                            !.received = ret[t].loc.received], Got(t))

Verb(t) ==
    \/ VerbRequest(t) \/ VerbResult(t) \/ VerbPropagates(t)
    \/ VerbHandlesError(t) \/ VerbRetry(t) \/ VerbRetried(t)

-----------------------------------------------------------------------------
(* Tokens *)

\* A JWT is modelled by the claims the code reads: `n` tells two tokens of the
\* same kind apart, `exp` is the expiry claim.
Jwt(n, exp) == [n |-> n, exp |-> exp]

\* the "" that line 347 passes to verify_tokens when the body has no id_token
NoToken == Jwt(0, 0)

\* jwt.decode(token, options={"verify_signature": False, ...}).get("exp"), lines 863-868
DecodeExp(token) == token.exp

TokenFields == {"access_token", "id_token", "refresh_token"}

Exps == 1 .. MaxExp

FullTokenSet(n, at_exp, id_exp) ==
    [access_token |-> Jwt(n, at_exp), id_token |-> Jwt(n, id_exp), refresh_token |-> n]

Restrict(d, keys) == [k \in DOMAIN d \cap keys |-> d[k]]

\* a body that response.json() cannot decode
Undecodable == [undecodable |-> TRUE]
Decodes(body) == "undecodable" \notin DOMAIN body

\* the bodies the token endpoint may answer a refresh with
RefreshFieldSets ==
    {TokenFields, {"access_token", "id_token"}, {"access_token"}, {"id_token", "refresh_token"}}

RefreshBodies ==
    {Restrict(FullTokenSet(2, a, i), F) :
        a \in Exps, i \in Exps, F \in RefreshFieldSets} \cup {Undecodable}

\* the statuses the token endpoint may answer with
TokenStatuses == {200, 400}

\* what the JWKS request and the signature check may come to
JwksOutcomes == {"verified", "rejected", "undecodable", "unreachable"}

HasIdentity(field) == "identity" \in DOMAIN tokens /\ field \in DOMAIN tokens["identity"]

-----------------------------------------------------------------------------
(* verify_tokens, lines 890-918 *)

VerifyFrame(token, type) == Frame("verify_tokens", [token |-> token, type |-> type])

\* lines 892-903: only the identity type is implemented
VerifyStart(t) ==
    /\ At(t, "verify_tokens", "start")
    /\ UNCHANGED <<session, now>>
    /\ IF Top(t).loc.type = "identity"
       THEN Sent(t, "await", Top(t).loc)
       ELSE Return(t, Value(False))

\* the JWKS request (893) and the decoding of its body (894) are outside the
\* try; the key lookup and the signature check (904-918) are inside it
VerifyOutcome(jwks, token) ==
    IF jwks = "unreachable" THEN Raise("Transport", 0)
    ELSE IF jwks = "undecodable" THEN Raise("DecodeError", 0)
    ELSE IF jwks = "verified" /\ token # NoToken THEN Value(True)
    ELSE Value(False)

VerifyDone(t, outcomes) ==
    /\ At(t, "verify_tokens", "await")
    /\ UNCHANGED <<session, now>>
    /\ \E jwks \in outcomes : Return(t, VerifyOutcome(jwks, Top(t).loc.token))

-----------------------------------------------------------------------------
(* refresh_tokens, lines 920-954 *)

\* `keys` tells how the fetch of the signing keys ended (history only)
RefreshFrame ==
    Frame("refresh_tokens",
          [answered |-> FALSE, status |-> 0, body |-> EmptyDict, keys |-> "none"])

\* lines 930-937: the request body needs the identity refresh token (a
\* KeyError is caught by line 952); then the token request is sent
RefreshStart(t) ==
    /\ At(t, "refresh_tokens", "start")
    /\ UNCHANGED <<session, now>>
    /\ IF HasIdentity("refresh_token")
       THEN Sent(t, "await", Top(t).loc)
       ELSE Return(t, Value(False))

\* the token request raises (timeout, connection error): caught by line 952
RefreshFails(t) ==
    /\ At(t, "refresh_tokens", "await")
    /\ UNCHANGED <<session, now>>
    /\ Return(t, Value(False))

\* a refresh that takes every answer below 500 for a success
RefreshAcceptsBelow500(status) == status < 500

\* line 939
RefreshAccepts(status) == status = 200

\* line 940 decodes the body and line 942 reads its "id_token"
RefreshReadsIdToken(body) == Decodes(body) /\ "id_token" \in DOMAIN body

\* lines 938-949: the answer is recorded under "token"; anything but a 200
\* with a body that holds an id_token ends the refresh with False
RefreshAnswer(t, statuses, bodies) ==
    /\ At(t, "refresh_tokens", "await")
    /\ \E status \in statuses, body \in bodies :
          LET loc == [Top(t).loc EXCEPT !.answered = TRUE, !.status = status, !.body = body]
          IN  /\ service_status' = update_service_status(service_status, URL_TOKEN, status)
              /\ UNCHANGED <<logged_in, tokens, auth, jar, vehicles, refresh_interval,
                             login_ok, now>>
              /\ IF RefreshAccepts(status) /\ RefreshReadsIdToken(body)
                 THEN CallWith(t, "verified", loc, VerifyFrame(body["id_token"], "identity"))
                 ELSE ReturnWith(t, loc, Value(False))

\* lines 944-945: every returned field is written into the identity token set
RefreshMerge(identity, body) == DictMerge(identity, body)

\* lines 942-951: a verification that raised is caught by line 952; True and
\* False both go on to the merge and to the header
RefreshVerified(t) ==
    /\ At(t, "refresh_tokens", "verified")
    /\ UNCHANGED <<logged_in, service_status, jar, vehicles, refresh_interval, login_ok, now>>
    /\ IF ret[t].exc # "none"
       THEN /\ UNCHANGED <<tokens, auth>>
            /\ ReturnWith(t, [Top(t).loc EXCEPT !.keys = "failed"], Value(False))
       ELSE LET merged == RefreshMerge(tokens["identity"], Top(t).loc.body)
                loc == [Top(t).loc EXCEPT !.keys = "fetched"]
            IN  /\ tokens' = DictSet(tokens, "identity", merged)
                /\ IF "access_token" \in DOMAIN merged
                   THEN /\ auth' = Bearer(merged["access_token"])
                        /\ ReturnWith(t, loc, Value(True))
                   ELSE /\ auth' = auth
                        /\ ReturnWith(t, loc, Value(False))

-----------------------------------------------------------------------------
(* validate_tokens, lines 858-888 *)

ValidateFrame ==
    Frame("validate_tokens",
          [decoded |-> FALSE, id_dt |-> 0, at_dt |-> 0, now |-> 0, later |-> 0,
           refreshes |-> 0, refreshed |-> False])

\* line 875
Expired(n, id_dt, at_dt) == n >= id_dt \/ n >= at_dt

\* a look-ahead whose comparisons point the other way
ExpiresSoonReversed(later, id_dt, at_dt) == later <= id_dt \/ later <= at_dt

\* a look-ahead that lets a token live until the look-ahead instant is past it
ExpiresSoonStrict(later, id_dt, at_dt) == later > id_dt \/ later > at_dt

\* line 882
ExpiresSoon(later, id_dt, at_dt) == later >= id_dt \/ later >= at_dt

\* lines 861-887 up to the await: read and decode both tokens (a KeyError when
\* there is no identity token set), read the clock, choose the branch
ValidateStart(t) ==
    /\ At(t, "validate_tokens", "start")
    /\ UNCHANGED <<session, now>>
    /\ IF ~(HasIdentity("id_token") /\ HasIdentity("access_token"))
       THEN Return(t, Raise("KeyError", 0))
       ELSE LET id_dt == DecodeExp(tokens["identity"]["id_token"])
                at_dt == DecodeExp(tokens["identity"]["access_token"])
                later == now + refresh_interval
                loc == [Top(t).loc EXCEPT !.decoded = TRUE, !.id_dt = id_dt, !.at_dt = at_dt,
                                          !.now = now, !.later = later]
            IN  IF Expired(now, id_dt, at_dt) \/ ExpiresSoon(later, id_dt, at_dt)
                THEN CallWith(t, "refreshed", [loc EXCEPT !.refreshes = @ + 1], RefreshFrame)
                ELSE ReturnWith(t, loc, Value(True))

\* a validation that does not look at what the refresh returned
ValidateIgnoresRefresh(refreshed) == True

\* lines 877-880 and 884-887
ValidateAfterRefresh(refreshed) == IF refreshed = True THEN True ELSE False

ValidateRefreshed(t) ==
    /\ At(t, "validate_tokens", "refreshed")
    /\ UNCHANGED <<session, now>>
    /\ IF ret[t].exc # "none"
       THEN Return(t, Got(t))
       ELSE ReturnWith(t, [Top(t).loc EXCEPT !.refreshed = ret[t].val],
                       Value(ValidateAfterRefresh(ret[t].val)))

Validate(t) == ValidateStart(t) \/ ValidateRefreshed(t)

-----------------------------------------------------------------------------
(* validate_login, lines 1017-1027 *)

\* line 1021: await self.validate_tokens
ValidateLoginStart(t) ==
    /\ At(t, "validate_login", "start")
    /\ UNCHANGED <<session, now>>
    /\ Call(t, "validated", ValidateFrame)

\* lines 1020-1027: `except OSError` is the only handler
ValidateLoginOutcome(got) ==
    IF got.exc = "OSError" THEN Value(False)
    ELSE IF got.exc # "none" THEN got
    ELSE IF got.val = True THEN Value(True) ELSE Value(False)

ValidateLoginDone(t) ==
    /\ At(t, "validate_login", "validated")
    /\ UNCHANGED <<session, now>>
    /\ Return(t, ValidateLoginOutcome(Got(t)))

-----------------------------------------------------------------------------
(* _login, lines 125-358 *)

\* max_depth of line 281
max_depth == 10

\* A redirect target is modelled by what the code looks for in it: "app" when
\* it starts with APP_URI, "error" and "code" when its query has that parameter
NoRef == {}

\* `ref` and `left` are the ref and max_depth of lines 194 and 281-294; `sent`
\* lists the requests sent so far and `seen` collects the marks of all targets
\* of the password step and `dead_end` tells that a hop was answered without a
\* Location, `failed` is the number of requests sent when a step first failed
\* (history only); the rest is the token answer
LoginFrame(client) ==
    Frame("_login", [client |-> client, ref |-> NoRef, left |-> max_depth, sent |-> <<>>,
                     seen |-> {}, dead_end |-> FALSE, failed |-> 0, exchanged |-> FALSE,
                     status |-> 0,
                     body |-> EmptyDict, verified |-> None])

Sends(t, what) == [Top(t).loc EXCEPT !.sent = Append(@, what)]

\* the bodies the token endpoint may answer the code exchange with: a token
\* set, a token set without access_token, an error
ErrorBody == [error |-> "invalid_grant"]

FullBodies == {FullTokenSet(1, a, i) : a \in Exps, i \in Exps}

FreshBody == FullTokenSet(1, MaxExp, MaxExp)

LoginBodies ==
    FullBodies
        \cup {Restrict(FullTokenSet(1, MaxExp, MaxExp), {"id_token", "refresh_token"})}
        \cup {ErrorBody}

\* how the browser flow of lines 158-315 (discovery, authorization page, email
\* and password forms, redirects) may end
FlowOutcomes == {"no_discovery", "failed", "code"}

\* line 85-86: _clear_cookies empties the cookie jar of the aiohttp session; the
\* store that _request passes with every request (_jarCookie) is another object
ClearCookies(store) == store

\* lines 151-158: cookies cleared, headers reset (the Authorization header goes),
\* discovery sent
LoginStart(t) ==
    /\ At(t, "_login", "start")
    /\ auth' = NoHeader
    /\ jar' = ClearCookies(jar)
    /\ UNCHANGED <<logged_in, tokens, service_status, vehicles, refresh_interval,
                   login_ok, now>>
    /\ Sent(t, "flow", Sends(t, "discovery"))

\* lines 352-356: the except clause of _login
\* a step of the flow raised or was answered with a failure (history only)
Failing(loc) == IF loc.failed > 0 THEN loc ELSE [loc EXCEPT !.failed = Len(loc.sent)]

LoginFailedWith(t, loc) ==
    /\ logged_in' = FALSE
    /\ ReturnWith(t, Failing(loc), Value(False))

LoginFailed(t) == LoginFailedWith(t, Top(t).loc)

\* lines 159-333: a discovery answer other than 200 returns False at once; any
\* later failure raises into the except clause; otherwise the authorization
\* code is exchanged at the token endpoint
LoginFlow(t, outcomes) ==
    /\ At(t, "_login", "flow")
    /\ UNCHANGED <<tokens, auth, service_status, jar, vehicles, refresh_interval, login_ok, now>>
    /\ \E outcome \in outcomes :
          CASE outcome = "no_discovery" -> logged_in' = logged_in /\ Return(t, Value(False))
            [] outcome = "failed" -> LoginFailed(t)
            [] OTHER -> logged_in' = logged_in /\ Sent(t, "exchange", Sends(t, "exchange"))

\* ---- the steps of the login flow, lines 158-333, one action per answer ----

Marks == {"app", "error", "code"}
Targets == SUBSET Marks
NoLocation == [none |-> TRUE]
Locations(targets) == {NoLocation} \cup {[ref |-> r] : r \in targets}

\* lines 318-319: the authorization code is read from the query of ref
AfterRedirects(ref) == IF "code" \in ref THEN "exchange" ELSE "fail"

\* lines 298-314: the handler of the redirect loop
OnRedirectError(ref) ==
    IF "error" \in ref THEN "fail"
    ELSE IF "code" \in ref THEN AfterRedirects(ref)
    ELSE "fail"

\* line 283: the test of the redirect loop
RedirectTest(ref) == IF "app" \in ref THEN AfterRedirects(ref) ELSE "hop"

\* what _login does next: one more hop, the token exchange or the except
\* clause of lines 352-356
LoginContinue(t, loc, next) ==
    CASE next = "hop" -> logged_in' = logged_in /\ Sent(t, "hop", [loc EXCEPT !.sent = Append(@, "hop")])
      [] next = "exchange" ->
            logged_in' = logged_in /\ Sent(t, "exchange", [loc EXCEPT !.sent = Append(@, "exchange")])
      [] OTHER -> LoginFailedWith(t, loc)

LoginAwaits == {"flow", "authorize", "page", "email", "password"}

\* a request of lines 158-277 raises, or its answer has not the expected
\* content (lines 162-165, 219-230, 239-266)
LoginStepFails(t) ==
    /\ ~Idle(t) /\ Top(t).fn = "_login" /\ Top(t).pc \in LoginAwaits
    /\ UNCHANGED <<tokens, auth, service_status, jar, vehicles, refresh_interval, login_ok, now>>
    /\ LoginFailed(t)

\* lines 158-161 and 182: the openid configuration answers
LoginDiscovery(t, statuses) ==
    /\ At(t, "_login", "flow")
    /\ UNCHANGED <<tokens, auth, service_status, jar, vehicles, refresh_interval, login_ok, now>>
    /\ logged_in' = logged_in
    /\ \E status \in statuses :
          IF status # 200 THEN ReturnWith(t, Failing(Top(t).loc), Value(False))
          ELSE Sent(t, "authorize", Sends(t, "authorize"))

\* lines 193-211: the authorization endpoint answers
LoginAuthorize(t, locations) ==
    /\ At(t, "_login", "authorize")
    /\ UNCHANGED <<tokens, auth, service_status, jar, vehicles, refresh_interval, login_ok, now>>
    /\ \E location \in locations :
          IF location = NoLocation THEN LoginFailed(t)
          ELSE LET loc == [Top(t).loc EXCEPT !.ref = location.ref]
               IN  IF "error" \in location.ref THEN LoginFailedWith(t, loc)
                   ELSE logged_in' = logged_in /\ Sent(t, "page", [loc EXCEPT !.sent = Append(@, "page")])

\* lines 215-236: the login page answers
LoginPage(t, statuses) ==
    /\ At(t, "_login", "page")
    /\ UNCHANGED <<tokens, auth, service_status, jar, vehicles, refresh_interval, login_ok, now>>
    /\ \E status \in statuses :
          IF status # 200 THEN LoginFailed(t)
          ELSE logged_in' = logged_in /\ Sent(t, "email", Sends(t, "email"))

\* lines 237-277: the email step answers
LoginEmail(t, statuses) ==
    /\ At(t, "_login", "email")
    /\ UNCHANGED <<tokens, auth, service_status, jar, vehicles, refresh_interval, login_ok, now>>
    /\ \E status \in statuses :
          IF status # 200 THEN LoginFailed(t)
          ELSE logged_in' = logged_in /\ Sent(t, "password", Sends(t, "password"))

\* lines 280-283: the password step answers; without a Location the handler
\* sees the ref of line 194
LoginPassword(t, locations) ==
    /\ At(t, "_login", "password")
    /\ UNCHANGED <<tokens, auth, service_status, jar, vehicles, refresh_interval, login_ok, now>>
    /\ \E location \in locations :
          IF location = NoLocation
          THEN LoginContinue(t, Failing(Top(t).loc), OnRedirectError(Top(t).loc.ref))
          ELSE LET loc == [Top(t).loc EXCEPT !.ref = location.ref, !.seen = @ \cup location.ref]
               IN  LoginContinue(t, loc, RedirectTest(loc.ref))

\* line 286 raises
LoginHopFails(t) ==
    /\ At(t, "_login", "hop")
    /\ UNCHANGED <<tokens, auth, service_status, jar, vehicles, refresh_interval, login_ok, now>>
    /\ LoginContinue(t, Failing(Top(t).loc), OnRedirectError(Top(t).loc.ref))

\* lines 289-297 and 283: a redirect target answers
LoginHop(t, locations) ==
    /\ At(t, "_login", "hop")
    /\ UNCHANGED <<tokens, auth, service_status, jar, vehicles, refresh_interval, login_ok, now>>
    /\ \E location \in locations :
          IF location = NoLocation
          THEN LoginContinue(t, Failing([Top(t).loc EXCEPT !.dead_end = TRUE]),
                             OnRedirectError(Top(t).loc.ref))
          ELSE LET loc == [Top(t).loc EXCEPT !.ref = location.ref, !.seen = @ \cup location.ref,
                                             !.left = @ - 1]
               IN  IF loc.left = 0
                   THEN LoginContinue(t, Failing(loc), OnRedirectError(loc.ref))
                   ELSE LoginContinue(t, loc, RedirectTest(loc.ref))

\* lines 331-333 raise, or line 334 finds a status other than 200, or line 336
\* cannot decode the body
LoginExchangeFails(t) ==
    /\ At(t, "_login", "exchange")
    /\ UNCHANGED <<tokens, auth, service_status, jar, vehicles, refresh_interval, login_ok, now>>
    /\ LoginFailed(t)

\* an exchange that takes every answer below 500 for a success
ExchangeAcceptsBelow500(status) == status < 500

\* line 334
ExchangeAccepts(status) == status = 200

\* lines 334-347: a status other than 200 raises; the decoded body is stored
\* under the client's label, an error field raises, otherwise the identity
\* token is verified
LoginExchange(t, statuses, bodies) ==
    /\ At(t, "_login", "exchange")
    /\ UNCHANGED <<auth, service_status, jar, vehicles, refresh_interval, login_ok, now>>
    /\ \E status \in statuses, body \in bodies :
          LET loc == [Top(t).loc EXCEPT !.exchanged = TRUE, !.status = status, !.body = body]
          IN  IF ~ExchangeAccepts(status)
              THEN tokens' = tokens /\ LoginFailedWith(t, loc)
              ELSE /\ tokens' = DictSet(tokens, Top(t).loc.client, body)
                   /\ IF "error" \in DOMAIN body
                      THEN LoginFailedWith(t, loc)
                      ELSE /\ logged_in' = logged_in
                           /\ CallWith(t, "verified", loc,
                                       VerifyFrame(IF "id_token" \in DOMAIN body
                                                   THEN body["id_token"] ELSE NoToken,
                                                   "identity"))

\* lines 347-351: only a verified identity token sets the flag here
LoginFlagAfterVerify(verified, flag) == IF verified = True THEN TRUE ELSE flag

\* lines 347-358: a verification that raised goes to the except clause; line
\* 357, outside the try, needs the access_token of the stored body
LoginVerified(t) ==
    /\ At(t, "_login", "verified")
    /\ UNCHANGED <<tokens, service_status, jar, vehicles, refresh_interval, now>>
    /\ IF ret[t].exc # "none"
       THEN /\ UNCHANGED <<auth, login_ok>>
            /\ LoginFailed(t)
       ELSE /\ logged_in' = LoginFlagAfterVerify(ret[t].val, logged_in)
            /\ LET loc == [Top(t).loc EXCEPT !.verified = ret[t].val]
               IN  IF "access_token" \in DOMAIN tokens[Top(t).loc.client]
                   THEN /\ auth' = Bearer(tokens[Top(t).loc.client]["access_token"])
                        /\ login_ok' = TRUE
                        /\ ReturnWith(t, loc, Value(True))
                   ELSE /\ UNCHANGED <<auth, login_ok>>
                        /\ ReturnWith(t, loc, Raise("KeyError", 0))

-----------------------------------------------------------------------------
(* doLogin, lines 89-123 *)

DoLoginFrame == Frame("doLogin", [tries |-> 1])
\* `login` is what the _login of line 536 returned (history only)
UpdateFrame == Frame("update", [pending |-> 0, login |-> None])

\* lines 93-94, with tries = 1
DoLoginStart(t) ==
    /\ At(t, "doLogin", "start")
    /\ UNCHANGED <<session, now>>
    /\ Call(t, "logged", LoginFrame("Legacy"))

\* lines 94-109: the flag takes _login's result; on success the Legacy token
\* set is copied to "identity" and the vehicles are requested
DoLoginLogged(t) ==
    /\ At(t, "doLogin", "logged")
    /\ UNCHANGED <<auth, service_status, jar, vehicles, refresh_interval, login_ok, now>>
    /\ IF ret[t].exc # "none"
       THEN /\ UNCHANGED <<logged_in, tokens>>
            /\ Return(t, Got(t))
       ELSE /\ logged_in' = (ret[t].val = True)
            /\ IF ret[t].val = True
               THEN /\ tokens' = DictSet(tokens, "identity", tokens["Legacy"])
                    /\ Call(t, "vehicles", VerbFrame("get", URL_VEHICLES, 0, FALSE))
               ELSE /\ tokens' = tokens
                    /\ Return(t, Value(False))

\* loaded_vehicles.get("data") is not None, line 111
HasData(response) == response.kind = "json" /\ response.body = "data"

\* lines 109-122: a Vehicle per entry of the answer, then update(); without
\* data the session is logged out
DoLoginVehicles(t, counts) ==
    /\ At(t, "doLogin", "vehicles")
    /\ UNCHANGED <<tokens, auth, service_status, jar, refresh_interval, login_ok, now>>
    /\ IF ret[t].exc # "none"
       THEN /\ UNCHANGED <<logged_in, vehicles>>
            /\ Return(t, Got(t))
       ELSE IF HasData(ret[t].val)
       THEN /\ logged_in' = logged_in
            /\ \E n \in counts : vehicles' = n
            /\ Call(t, "updated", UpdateFrame)
       ELSE /\ logged_in' = FALSE
            /\ vehicles' = vehicles
            /\ Return(t, Value(False))

\* lines 122-123: update's result is dropped
DoLoginUpdated(t) ==
    /\ At(t, "doLogin", "updated")
    /\ UNCHANGED <<session, now>>
    /\ Return(t, IF ret[t].exc # "none" THEN Got(t) ELSE Value(True))

-----------------------------------------------------------------------------
(* update, lines 532-556 *)

\* the activations of update on the stack: update -> doLogin -> update -> ...
RECURSIVE Updates(_)
Updates(s) ==
    IF s = <<>> THEN 0
    ELSE (IF s[Len(s)].fn = "update" THEN 1 ELSE 0) + Updates(Pop(s))

\* lines 534-539: a session that is not logged in runs _login, not doLogin
UpdateStart(t) ==
    /\ At(t, "update", "start")
    /\ UNCHANGED <<session, now>>
    /\ IF ~logged_in
       THEN Call(t, "relogged", LoginFrame("Legacy"))
       ELSE Call(t, "validated", ValidateFrame)

\* an update that goes on whatever _login returned
LoginResultIgnored(result) == TRUE

\* `if not await self._login()`, line 536
LoginSucceeded(result) == result = True

\* lines 535-539: _login is called outside the try
UpdateRelogged(t) ==
    /\ At(t, "update", "relogged")
    /\ UNCHANGED <<session, now>>
    /\ IF ret[t].exc # "none" THEN Return(t, Got(t))
       ELSE LET loc == [Top(t).loc EXCEPT !.login = ret[t].val]
            IN  IF ~LoginSucceeded(ret[t].val) THEN ReturnWith(t, loc, Value(False))
                ELSE CallWith(t, "validated", loc, ValidateFrame)

\* lines 539-549: invalid tokens start a full doLogin; an exception of the
\* check is caught by line 554
UpdateValidated(t) ==
    /\ At(t, "update", "validated")
    /\ UNCHANGED <<session, now>>
    /\ IF ret[t].exc # "none" THEN Return(t, Value(False))
       ELSE IF ret[t].val # True
       THEN /\ Updates(stack[t]) < MaxDepth
            /\ Call(t, "relogin", DoLoginFrame)
       ELSE Goto(t, "vehicles", [Top(t).loc EXCEPT !.pending = vehicles])

\* lines 541-543
UpdateRelogin(t) ==
    /\ At(t, "update", "relogin")
    /\ UNCHANGED <<session, now>>
    /\ IF ret[t].exc # "none" \/ ret[t].val # True THEN Return(t, Value(False))
       ELSE Goto(t, "vehicles", [Top(t).loc EXCEPT !.pending = vehicles])

\* lines 547-553: every vehicle is updated (here one after the other)
UpdateVehicles(t) ==
    /\ At(t, "update", "vehicles")
    /\ UNCHANGED <<session, now>>
    /\ IF Top(t).loc.pending = 0 THEN Return(t, Value(True))
       ELSE CallWith(t, "gather", [Top(t).loc EXCEPT !.pending = @ - 1],
                     Frame("Vehicle.update", [vin |-> 1]))

\* lines 551-556: an exception of a vehicle update is caught by line 554
UpdateGather(t) ==
    /\ At(t, "update", "gather")
    /\ UNCHANGED <<session, now>>
    /\ IF ret[t].exc # "none" THEN Return(t, Value(False))
       ELSE Goto(t, "vehicles", Top(t).loc)

\* lines 545-551 with a vehicle per worker: asyncio.gather starts a
\* Vehicle.update for every vehicle, and they run interleaved at their awaits
GatherStart(t) ==
    /\ At(t, "update", "vehicles")
    /\ vehicles = Cardinality(Workers)
    /\ \A w \in Workers : Idle(w)
    /\ UNCHANGED <<session, now>>
    /\ stack' = [u \in Tasks |->
                    IF u = t THEN SetTop(stack[t], [Top(t) EXCEPT !.pc = "gathering"])
                    ELSE IF u \in Workers THEN <<Frame("Vehicle.update", [vin |-> u])>>
                    ELSE stack[u]]
    /\ ret' = [u \in Tasks |-> IF u \in Workers THEN [fn |-> "none"] ELSE ret[u]]

\* lines 551-556: gather ends when every vehicle update has returned, or as
\* soon as one of them raised (caught by line 554)
GatherDone(t) ==
    /\ At(t, "update", "gathering")
    /\ UNCHANGED <<session, now>>
    /\ LET raised == \E w \in Workers : Idle(w) /\ ret[w].fn # "none" /\ ret[w].exc # "none"
       IN  /\ raised \/ \A w \in Workers : Idle(w)
           /\ Return(t, IF raised THEN Value(False) ELSE Value(True))

Update(t) ==
    \/ UpdateStart(t) \/ UpdateRelogged(t) \/ UpdateValidated(t)
    \/ UpdateRelogin(t) \/ UpdateVehicles(t) \/ UpdateGather(t)

-----------------------------------------------------------------------------
(* The data methods, lines 558-684: getPendingRequests, getOperationList,     *)
(* getSelectiveStatus, getVehicleData, getParkingPosition, getTripLast and    *)
(* wakeUpVehicle all check the tokens and then issue one request.             *)

URL_SELECTIVE == {"selectivestatus"}
URL_WAKEUP == {"vehiclewakeuptrigger"}

DataMethods == {"getPendingRequests", "getSelectiveStatus", "wakeUpVehicle"}

DataVerb(fn) == IF fn = "wakeUpVehicle" THEN "post" ELSE "get"

DataUrl(fn) ==
    IF fn = "getPendingRequests" THEN URL_PENDING
    ELSE IF fn = "getSelectiveStatus" THEN URL_SELECTIVE
    ELSE URL_WAKEUP

DataFrame(fn) == Frame(fn, [vin |-> 1])

\* `if not await self.validate_tokens`, outside the try
DataStart(t) ==
    /\ ~Idle(t) /\ Top(t).fn \in DataMethods /\ Top(t).pc = "start"
    /\ UNCHANGED <<session, now>>
    /\ Call(t, "validated", ValidateFrame)

DataValidated(t) ==
    /\ ~Idle(t) /\ Top(t).fn \in DataMethods /\ Top(t).pc = "validated"
    /\ UNCHANGED <<session, now>>
    /\ IF ret[t].exc # "none" THEN Return(t, Got(t))
       ELSE IF ret[t].val # True THEN Return(t, Value(False))
       ELSE Call(t, "fetched",
                 VerbFrame(DataVerb(Top(t).fn), DataUrl(Top(t).fn), 0,
                           Top(t).fn = "wakeUpVehicle"))

\* the except clause of each method returns False; otherwise the response
DataFetched(t) ==
    /\ ~Idle(t) /\ Top(t).fn \in DataMethods /\ Top(t).pc = "fetched"
    /\ UNCHANGED <<session, now>>
    /\ Return(t, IF ret[t].exc # "none" THEN Value(False) ELSE Got(t))

Data(t) == DataStart(t) \/ DataValidated(t) \/ DataFetched(t)

\* Vehicle.update (vw_vehicle.py): one vehicle's data is fetched through the
\* connection's data methods
VehicleUpdateStart(t) ==
    /\ At(t, "Vehicle.update", "start")
    /\ UNCHANGED <<session, now>>
    /\ Call(t, "fetched", DataFrame("getSelectiveStatus"))

VehicleUpdateDone(t) ==
    /\ At(t, "Vehicle.update", "fetched")
    /\ UNCHANGED <<session, now>>
    /\ Return(t, IF ret[t].exc # "none" THEN Got(t) ELSE Value(None))

VehicleUpdate(t) == VehicleUpdateStart(t) \/ VehicleUpdateDone(t)

-----------------------------------------------------------------------------
(* The action methods, lines 741-843: setClimater, setCharging, ... post or   *)
(* put one request and hand the raw response to _handle_action_result.        *)

ActionMethods == {"setCharging", "setClimaterSettings"}

ActionVerb(fn) == IF fn = "setCharging" THEN "post" ELSE "put"
ActionUrl(fn) == IF fn = "setCharging" THEN URL_CHARGING ELSE URL_CLIMATE_SETTINGS

\* the body that is the JSON number 429, and the sentinel of line 365
Body429 == "429"
Throttled == [id |-> None, state |-> "Throttled"]

\* `answers` is the history of the verb's call
ActionFrame(fn) == Frame(fn, [vin |-> 1, answers |-> <<>>])

\* _handle_action_result, lines 360-369: the decoded body is what is compared
\* with 429
HandleActionResult(response_raw) ==
    IF response_raw.body = "garbage" THEN Raise("Exception", 0)
    ELSE IF response_raw.body = "empty" THEN Raise("Exception", 0)
    ELSE IF response_raw.body = Body429 THEN Value(Throttled)
    ELSE Value([id |-> "requestID"])

ActionStart(t) ==
    /\ ~Idle(t) /\ Top(t).fn \in ActionMethods /\ Top(t).pc = "start"
    /\ UNCHANGED <<session, now>>
    /\ Call(t, "sent", VerbFrame(ActionVerb(Top(t).fn), ActionUrl(Top(t).fn), 0, TRUE))

\* every exception is raised again as Exception("Unknown error during ...")
ActionSent(t) ==
    /\ ~Idle(t) /\ Top(t).fn \in ActionMethods /\ Top(t).pc = "sent"
    /\ UNCHANGED <<session, now>>
    /\ ReturnWith(t, [Top(t).loc EXCEPT !.answers = ret[t].loc.answers],
                  IF ret[t].exc # "none" THEN Raise("Exception", ret[t].code)
                  ELSE HandleActionResult(ret[t].val))

Action(t) == ActionStart(t) \/ ActionSent(t)

-----------------------------------------------------------------------------
(* check_spin_state, lines 725-739, and setLock, lines 845-855 *)

\* the JSON bodies of the S-PIN state query that carry remainingTries
TriesIn == [tries2 |-> 2, tries3 |-> 3, tries4 |-> 4]

\* result.get("remainingTries", None) is not None: the envelope that get
\* returns for 204 and for the errors it swallows has no such key
HasTries(result) == result.kind = "json" /\ result.body \in DOMAIN TriesIn

RemainingTries(result) == TriesIn[result.body]

\* a check that lets the last but one try through
SpinAllowsTwoTries(remainingTries) == ~(remainingTries < 2)

\* line 732: `if remainingTries < 3: raise`
SpinAllows(remainingTries) == ~(remainingTries < 3)

\* `state` is the outcome of the query (history only)
SpinFrame == Frame("check_spin_state", [state |-> Value(None)])

\* line 727
SpinStart(t) ==
    /\ At(t, "check_spin_state", "start")
    /\ UNCHANGED <<session, now>>
    /\ Call(t, "queried", VerbFrame("get", URL_SPIN, 0, FALSE))

\* lines 728-739
SpinQueried(t) ==
    /\ At(t, "check_spin_state", "queried")
    /\ UNCHANGED <<session, now>>
    /\ ReturnWith(t, [Top(t).loc EXCEPT !.state = Got(t)],
                  IF ret[t].exc # "none" THEN Got(t)
                  ELSE IF ~HasTries(ret[t].val) THEN Raise("Exception", 0)
                  ELSE IF ~SpinAllows(RemainingTries(ret[t].val)) THEN Raise("Exception", 0)
                  ELSE Value(True))

\* `state` is the outcome of the S-PIN state query, `answers` the history of
\* the lock or unlock request
SetLockFrame(lock) ==
    Frame("setLock", [vin |-> 1, lock |-> lock, state |-> Value(None), answers |-> <<>>])

\* line 847
SetLockStart(t) ==
    /\ At(t, "setLock", "start")
    /\ UNCHANGED <<session, now>>
    /\ Call(t, "checked", SpinFrame)

\* lines 847-852: what check_spin_state raised goes to the caller as it is;
\* otherwise the lock or unlock request is posted
SetLockChecked(t) ==
    /\ At(t, "setLock", "checked")
    /\ UNCHANGED <<session, now>>
    /\ LET loc == [Top(t).loc EXCEPT !.state = ret[t].loc.state]
       IN  IF ret[t].exc # "none"
           THEN ReturnWith(t, loc, Got(t))
           ELSE CallWith(t, "sent", loc,
                         VerbFrame("post", IF loc.lock THEN URL_LOCK ELSE URL_UNLOCK, 0, TRUE))

\* lines 853-855
SetLockSent(t) ==
    /\ At(t, "setLock", "sent")
    /\ UNCHANGED <<session, now>>
    /\ ReturnWith(t, [Top(t).loc EXCEPT !.answers = ret[t].loc.answers],
                  IF ret[t].exc # "none" THEN Raise("Exception", ret[t].code)
                  ELSE HandleActionResult(ret[t].val))

-----------------------------------------------------------------------------
(* logout, lines 376-392 *)

\* self._session_headers.get("identity", {}): the headers hold no such key
HeadersIdentity == EmptyDict

\* lines 379-392
Logout(t) ==
    /\ At(t, "logout", "start")
    /\ auth' = NoHeader
    /\ UNCHANGED <<logged_in, tokens, service_status, jar, vehicles, refresh_interval,
                   login_ok, now>>
    /\ IF logged_in /\ "refresh_token" \in DOMAIN HeadersIdentity
       THEN Call(t, "revoked", VerbFrame("post", {"revoke"}, 0, FALSE))
       ELSE Return(t, Value(None))

-----------------------------------------------------------------------------
(* The callers of the public interface *)

\* a collaborator calls get / post / put directly
CallVerb(t, urls) ==
    /\ UNCHANGED <<session, now>>
    /\ \E fn \in Verbs, url \in urls, raw \in BOOLEAN :
          /\ fn = "get" => ~raw
          /\ Begin(t, VerbFrame(fn, url, 0, raw))

\* a collaborator calls one of the session's public coroutines
CallDoLogin(t) == UNCHANGED <<session, now>> /\ Begin(t, DoLoginFrame)
CallUpdate(t) == UNCHANGED <<session, now>> /\ Begin(t, UpdateFrame)
CallValidate(t) == UNCHANGED <<session, now>> /\ Begin(t, ValidateFrame)
CallRefresh(t) == UNCHANGED <<session, now>> /\ Begin(t, RefreshFrame)
CallValidateLogin(t) ==
    UNCHANGED <<session, now>> /\ Begin(t, Frame("validate_login", EmptyDict))
CallLogout(t) == UNCHANGED <<session, now>> /\ Begin(t, Frame("logout", EmptyDict))
CallSetLock(t) ==
    UNCHANGED <<session, now>> /\ \E lock \in BOOLEAN : Begin(t, SetLockFrame(lock))

\* the data and action methods are called for a vehicle of the account, and
\* the Vehicle objects are made by doLogin
CallData(t) ==
    /\ vehicles > 0
    /\ UNCHANGED <<session, now>>
    /\ \E fn \in DataMethods : Begin(t, DataFrame(fn))

CallAction(t) ==
    /\ vehicles > 0
    /\ UNCHANGED <<session, now>>
    /\ \E fn \in ActionMethods : Begin(t, ActionFrame(fn))

\* time passes; the code reads the clock only when validate_tokens starts
Tick ==
    /\ now < MaxTime
    /\ \A t \in Tasks : Idle(t) \/ At(t, "validate_tokens", "start")
    /\ now' = now + 1
    /\ UNCHANGED <<session, stack, ret>>

-----------------------------------------------------------------------------
(* Specification *)

\* __init__, lines 55-83
Init ==
    /\ logged_in = FALSE
    /\ tokens = EmptyDict
    /\ auth = NoHeader
    /\ service_status = EmptyDict
    /\ jar = EmptyDict
    /\ vehicles = 0
    /\ refresh_interval \in 0 .. MaxInterval
    /\ now = 0
    /\ stack = [t \in Tasks |-> <<>>]
    /\ ret = [t \in Tasks |-> [fn |-> "none"]]
    /\ login_ok = FALSE

\* The coroutines of the token layer
TokenSteps(t) ==
    \/ VerifyStart(t) \/ VerifyDone(t, JwksOutcomes)
    \/ RefreshStart(t) \/ RefreshFails(t) \/ RefreshAnswer(t, TokenStatuses, RefreshBodies)
    \/ RefreshVerified(t)
    \/ Validate(t)

\* doLogin with a server that lets the login through and lists no vehicle
QuietLogin(t) ==
    \/ LoginStart(t) \/ LoginFlow(t, {"code"}) \/ LoginExchange(t, {200}, {FreshBody})
    \/ LoginVerified(t)
    \/ DoLoginStart(t) \/ DoLoginLogged(t) \/ DoLoginVehicles(t, {0}) \/ DoLoginUpdated(t)
    \/ UpdateStart(t) \/ UpdateValidated(t) \/ UpdateRelogin(t) \/ UpdateVehicles(t)
    \/ VerbRequest(t) \/ VerbResult(t)
    \/ RequestSend(t) \/ RequestResponse(t, {200}, {"data"}, {EmptyDict})

\* The token layer: a session logs in and its tokens are checked and
\* refreshed as time passes, against a token endpoint that may answer anything
NextTokens ==
    \/ Tick
    \/ \E t \in SeqTasks :
          \/ CallDoLogin(t) \/ CallValidate(t) \/ CallRefresh(t) \/ CallValidateLogin(t)
          \/ QuietLogin(t)
          \/ TokenSteps(t)
          \/ ValidateLoginStart(t) \/ ValidateLoginDone(t)

SpecTokens == Init /\ [][NextTokens]_vars

-----------------------------------------------------------------------------
\* The session from its construction: the public methods called one after the
\* other, against an API that answers 200 or 401
SessionStatuses == {200, 401}
SessionBodies == {FullTokenSet(1, MaxExp, MaxExp), FullTokenSet(3, 1, MaxExp)}

SessionRun(t) ==
    \/ RequestSend(t) \/ RequestResponse(t, SessionStatuses, {"data"}, {EmptyDict})
    \/ VerbRequest(t) \/ VerbResult(t) \/ VerbHandlesError(t)
    \/ VerifyStart(t) \/ VerifyDone(t, {"verified", "rejected"})
    \/ RefreshStart(t) \/ RefreshAnswer(t, TokenStatuses, {FullTokenSet(2, MaxExp, MaxExp)})
    \/ RefreshVerified(t)
    \/ Validate(t)
    \/ LoginStart(t) \/ LoginFlow(t, FlowOutcomes) \/ LoginExchange(t, {200}, SessionBodies)
    \/ LoginVerified(t)
    \/ DoLoginStart(t) \/ DoLoginLogged(t) \/ DoLoginVehicles(t, 0 .. MaxVehicles)
    \/ DoLoginUpdated(t)
    \/ Update(t) \/ VehicleUpdate(t)
    \/ Data(t) \/ Action(t) \/ Logout(t)

Next ==
    \E t \in SeqTasks :
       \/ CallDoLogin(t) \/ CallUpdate(t) \/ CallLogout(t)
       \/ CallData(t) \/ CallAction(t)
       \/ SessionRun(t)

Spec == Init /\ [][Next]_vars

-----------------------------------------------------------------------------
\* The login flow step by step: doLogin and update against an identity server
\* that may answer each step with an error, redirect anywhere and answer the
\* token exchange with any status and body; the API lists no vehicle
LoginStatuses == {200, 400}
LoginTargets == {{}, {"code"}, {"error"}, {"app"}, {"app", "code"}}
ExchangeBodies ==
    {FreshBody, Restrict(FreshBody, {"id_token", "refresh_token"}), ErrorBody}

LoginRun(t) ==
    \/ LoginStart(t) \/ LoginStepFails(t)
    \/ LoginDiscovery(t, LoginStatuses) \/ LoginAuthorize(t, Locations(LoginTargets))
    \/ LoginPage(t, LoginStatuses) \/ LoginEmail(t, LoginStatuses)
    \/ LoginPassword(t, Locations(LoginTargets))
    \/ LoginHop(t, Locations(LoginTargets)) \/ LoginHopFails(t)
    \/ LoginExchangeFails(t) \/ LoginExchange(t, TokenStatuses, ExchangeBodies)
    \/ LoginVerified(t)
    \/ VerifyStart(t) \/ VerifyDone(t, JwksOutcomes)
    \/ DoLoginStart(t) \/ DoLoginLogged(t) \/ DoLoginVehicles(t, {0}) \/ DoLoginUpdated(t)
    \/ UpdateStart(t) \/ UpdateRelogged(t) \/ UpdateValidated(t) \/ UpdateVehicles(t)
    \/ ValidateStart(t)
    \/ VerbRequest(t) \/ VerbResult(t)
    \/ RequestSend(t) \/ RequestResponse(t, {200}, {"data"}, {EmptyDict})

NextLogin ==
    \E t \in SeqTasks :
       \/ CallDoLogin(t) \/ CallUpdate(t)
       \/ LoginRun(t)

SpecLogin == Init /\ [][NextLogin]_vars

-----------------------------------------------------------------------------
\* The action methods: a session logs in, finds one vehicle and sends charging
\* and climatisation actions to an API that may limit the rate of any request
\* and may answer with a data body, an empty body or the number 429
ActionStatuses == {200, 429}
ActionBodies == {"data", "empty", Body429}

ActionsRun(t) ==
    \/ LoginStart(t) \/ LoginFlow(t, {"code"}) \/ LoginExchange(t, {200}, {FreshBody})
    \/ LoginVerified(t)
    \/ VerifyStart(t) \/ VerifyDone(t, {"verified"})
    \/ DoLoginStart(t) \/ DoLoginLogged(t) \/ DoLoginVehicles(t, {1}) \/ DoLoginUpdated(t)
    \/ UpdateStart(t) \/ UpdateValidated(t) \/ UpdateVehicles(t) \/ UpdateGather(t)
    \/ VehicleUpdate(t) \/ Data(t)
    \/ ValidateStart(t)
    \/ Action(t)
    \/ VerbRequest(t) \/ VerbResult(t) \/ VerbHandlesError(t) \/ VerbRetry(t) \/ VerbRetried(t)
    \/ RequestSend(t) \/ RequestResponse(t, ActionStatuses, ActionBodies, {EmptyDict})

NextActions ==
    \E t \in SeqTasks :
       \/ CallDoLogin(t) \/ CallAction(t)
       \/ ActionsRun(t)

SpecActions == Init /\ [][NextActions]_vars

-----------------------------------------------------------------------------
\* Locking: setLock called against an API that may refuse or limit any
\* request, may fail to answer, and reports any number of remaining tries
LockStatuses == {200, 204, 400, 429}
LockBodies == {"data", "empty"} \cup DOMAIN TriesIn

NextLock ==
    \E t \in SeqTasks :
       \/ CallSetLock(t)
       \/ SetLockStart(t) \/ SetLockChecked(t) \/ SetLockSent(t)
       \/ SpinStart(t) \/ SpinQueried(t)
       \/ Verb(t)
       \/ RequestSend(t) \/ RequestFails(t)
       \/ RequestResponse(t, LockStatuses, LockBodies, {EmptyDict})

SpecLock == Init /\ [][NextLock]_vars

-----------------------------------------------------------------------------
\* The classification of responses: get, post and put against a server that
\* answers with success, no-content, redirect-class and error statuses and
\* with any body
RequestStatuses == {200, 204, 302, 400}

NextRequest ==
    \E t \in SeqTasks :
       \/ CallVerb(t, {URL_PENDING})
       \/ VerbRequest(t) \/ VerbResult(t) \/ VerbHandlesError(t)
       \/ RequestSend(t) \/ RequestResponse(t, RequestStatuses, Bodies, {EmptyDict})

SpecRequest == Init /\ [][NextRequest]_vars

-----------------------------------------------------------------------------
\* The fan-out of update(): a login whose tokens are about to expire, then a
\* vehicle update per worker, all on the one session
ExpiringBody == FullTokenSet(1, 1, 1)
ExpiringRefresh == FullTokenSet(2, 1, 1)

GatherRun(t) ==
    \/ LoginStart(t) \/ LoginFlow(t, {"code"}) \/ LoginExchange(t, {200}, {ExpiringBody})
    \/ LoginVerified(t)
    \/ DoLoginStart(t) \/ DoLoginLogged(t) \/ DoLoginVehicles(t, {Cardinality(Workers)})
    \/ DoLoginUpdated(t)
    \/ UpdateStart(t) \/ UpdateValidated(t) \/ UpdateRelogin(t)
    \/ GatherStart(t) \/ GatherDone(t)
    \/ VehicleUpdate(t) \/ Data(t)
    \/ Validate(t)
    \/ RefreshStart(t) \/ RefreshAnswer(t, TokenStatuses, {ExpiringRefresh}) \/ RefreshVerified(t)
    \/ VerifyStart(t) \/ VerifyDone(t, {"verified"})
    \/ VerbRequest(t) \/ VerbResult(t)
    \/ RequestSend(t) \/ RequestResponse(t, {200}, {"data"}, {EmptyDict})

NextGather ==
    \/ \E t \in SeqTasks : CallDoLogin(t)
    \/ \E t \in Tasks : GatherRun(t)

SpecGather == Init /\ [][NextGather]_vars

-----------------------------------------------------------------------------
\* update_service_status on its own, for the codes on both sides of every
\* branch of lines 958-969 and for urls of one, two and no category
StatusCodes == {0, 200, 201, 204, 207, 400, 401, 403, 404, 429, 500, 999, 1000, 1001}
StatusUrls == {URL_VEHICLES, URL_TOKEN, URL_PENDING, {"parkingposition", "token"}}

NextStatus == \E t \in SeqTasks : ReportStatus(t, StatusUrls, StatusCodes)

SpecStatus == Init /\ [][NextStatus]_vars

-----------------------------------------------------------------------------
\* The verb layer: get, post and put called against a server that may answer
\* anything, before and after a login
VerbsRun(t) ==
       \/ LoginStart(t) \/ LoginFlow(t, {"code"}) \/ LoginExchange(t, {200}, {FreshBody})
       \/ VerifyStart(t) \/ VerifyDone(t, {"verified"}) \/ LoginVerified(t)
       \/ DoLoginStart(t) \/ DoLoginLogged(t) \/ DoLoginVehicles(t, {0}) \/ DoLoginUpdated(t)
       \/ UpdateStart(t) \/ UpdateValidated(t) \/ UpdateVehicles(t)
       \/ ValidateStart(t)
       \/ RequestSend(t) \/ RequestFails(t)
       \/ RequestResponse(t, Statuses, Bodies, CookieJars)
       \/ Verb(t)

NextVerbs ==
    \E t \in SeqTasks : CallVerb(t, {URL_PENDING}) \/ CallDoLogin(t) \/ VerbsRun(t)

SpecVerbs == Init /\ [][NextVerbs]_vars

-----------------------------------------------------------------------------
(* vw_dashboard.py: Instrument.setup, Instrument.is_supported, Dashboard *)

\* the instruments taken from the head of the list of create_instruments()
MaxInstruments == 3

\* lines 786-792: the entities in the order of the list, each with the class
\* and the attribute its constructor sets
AllInstruments ==
    << [class |-> "Position", attr |-> "position"],
       [class |-> "DoorLock", attr |-> "door_locked"],
       [class |-> "TrunkLock", attr |-> "trunk_locked"],
       [class |-> "RequestUpdate", attr |-> "refresh_data"] >>

create_instruments ==
    SubSeq(AllInstruments, 1,
           IF MaxInstruments < Len(AllInstruments) THEN MaxInstruments
           ELSE Len(AllInstruments))

\* line 104: "is_" + self.attr + "_supported"
SupportedName(attr) == <<"is_", attr, "_supported">>

\* a vehicle is modelled by the support attributes it has and their values
Vehicles ==
    UNION {[names -> BOOLEAN] :
              names \in SUBSET {SupportedName(create_instruments[i].attr) :
                                   i \in DOMAIN create_instruments}}

\* a support check that is content with the attribute being there
IsSupportedWhenPresent(vehicle, attr) == SupportedName(attr) \in DOMAIN vehicle

\* lines 101-108: hasattr, then getattr
IsSupported(vehicle, attr) ==
    IF SupportedName(attr) \in DOMAIN vehicle THEN vehicle[SupportedName(attr)] ELSE FALSE

\* `todo` is the rest of the iteration, `configured` the instruments on which
\* configurate was called, in the order of the calls (history only)
DashboardFrame(vehicle) ==
    Frame("Dashboard", [vehicle |-> vehicle, todo |-> create_instruments,
                        instruments |-> <<>>, configured |-> <<>>])

CallDashboard(t) ==
    /\ UNCHANGED <<session, now>>
    /\ \E vehicle \in Vehicles : Begin(t, DashboardFrame(vehicle))

\* lines 56-65 and 1201: one step of the comprehension, instrument.setup(vehicle)
DashboardSetup(t) ==
    /\ At(t, "Dashboard", "start")
    /\ Top(t).loc.todo # <<>>
    /\ UNCHANGED <<session, now>>
    /\ LET loc == Top(t).loc
           instrument == Head(loc.todo)
       IN  IF ~IsSupported(loc.vehicle, instrument.attr)
           THEN Goto(t, "start", [loc EXCEPT !.todo = Tail(@)])
           ELSE Goto(t, "start", [loc EXCEPT !.todo = Tail(@),
                                             !.configured = Append(@, instrument),
                                             !.instruments = Append(@, instrument)])

\* line 1201: the list is complete
DashboardDone(t) ==
    /\ At(t, "Dashboard", "start")
    /\ Top(t).loc.todo = <<>>
    /\ UNCHANGED <<session, now>>
    /\ Return(t, Value(None))

\* Dashboards built for every vehicle
NextDashboard ==
    \E t \in SeqTasks : CallDashboard(t) \/ DashboardSetup(t) \/ DashboardDone(t)

SpecDashboard == Init /\ [][NextDashboard]_vars

-----------------------------------------------------------------------------
\* Concurrent requests: every task issues one call of a verb on the shared
\* session; the server sets any cookies with its answers, or refuses
BatchCookies ==
    UNION {[names -> {1, 2}] : names \in SUBSET {"c", "d"}}

NextBatch ==
    \E t \in Workers :
       \/ ret[t].fn = "none" /\ CallVerb(t, {URL_PENDING})
       \/ VerbRequest(t) \/ VerbResult(t) \/ VerbHandlesError(t)
       \/ RequestSend(t) \/ RequestResponse(t, {200, 400}, {"data"}, BatchCookies)

SpecBatch == Init /\ [][NextBatch]_vars

-----------------------------------------------------------------------------
\* The shared session: one task logs in, and logs in again, while another
\* task sends API requests; the server lets everything through
Requesters == {2}

SharedRun(t) ==
    \/ LoginStart(t) \/ LoginFlow(t, {"code"}) \/ LoginExchange(t, {200}, {FreshBody})
    \/ VerifyStart(t) \/ VerifyDone(t, {"verified"}) \/ LoginVerified(t)
    \/ DoLoginStart(t) \/ DoLoginLogged(t) \/ DoLoginVehicles(t, {0}) \/ DoLoginUpdated(t)
    \/ UpdateStart(t) \/ UpdateValidated(t) \/ UpdateVehicles(t)
    \/ ValidateStart(t)
    \/ VerbRequest(t) \/ VerbResult(t)
    \/ RequestSend(t) \/ RequestResponse(t, {200}, {"data"}, {EmptyDict})

NextShared ==
    \/ \E t \in SeqTasks : CallDoLogin(t)
    \/ \E t \in Requesters : CallVerb(t, {URL_PENDING})
    \/ \E t \in SeqTasks \cup Requesters : SharedRun(t)

SpecShared == Init /\ [][NextShared]_vars

\* a coroutine that can take a step takes it: every await of the verbs is a
\* request that ends (answer, or the timeout of line 413) or a finite sleep
FairVerbs == SpecVerbs /\ \A t \in SeqTasks : WF_vars(VerbsRun(t))

-----------------------------------------------------------------------------
(* Token validation and refresh *)

Validated(t) == ret[t].fn = "validate_tokens" /\ ret[t].loc.decoded
Refreshed(t) == ret[t].fn = "refresh_tokens" /\ ret[t].loc.answered

\* C1: when the clock plus the refresh interval is strictly before the expiry
\* of the identity token and of the access token, validate_tokens returns
\* True, calls refresh_tokens not once and sends no network request
C1_FreshTokensValidateWithoutRefresh ==
    \A t \in Tasks :
       (/\ Validated(t)
        /\ ret[t].loc.later < ret[t].loc.id_dt
        /\ ret[t].loc.later < ret[t].loc.at_dt)
       => /\ ret[t].exc = "none" /\ ret[t].val = True
          /\ ret[t].loc.refreshes = 0
          /\ ret[t].reqs = 0

C1_Witness ==
    \E t \in Tasks :
       /\ Validated(t)
       /\ ret[t].loc.later < ret[t].loc.id_dt
       /\ ret[t].loc.later < ret[t].loc.at_dt
       /\ ret[t].loc.later > 0
       /\ ret[t].val = True

\* C2: when the clock is at or after the expiry of the identity token or of
\* the access token, validate_tokens calls refresh_tokens exactly once before
\* it returns, and returns True when the refresh returned True and False when
\* the refresh returned False
C2_ExpiredTokensRefreshOnce ==
    \A t \in Tasks :
       (/\ Validated(t)
        /\ \/ ret[t].loc.now >= ret[t].loc.id_dt
           \/ ret[t].loc.now >= ret[t].loc.at_dt)
       => /\ ret[t].loc.refreshes = 1
          /\ ret[t].exc = "none"
          /\ ret[t].val = ret[t].loc.refreshed

C2_Witness ==
    \E t \in Tasks :
       /\ Validated(t)
       /\ ret[t].loc.now >= ret[t].loc.at_dt
       /\ ret[t].loc.refreshes = 1
       /\ ret[t].loc.refreshed = False
       /\ ret[t].val = False

\* C3: a refresh_tokens whose token request is answered with a status other
\* than 200 returns False and leaves the identity token set and the
\* Authorization header as they were when it was called
C3_RejectedRefreshChangesNothing ==
    \A t \in Tasks :
       (Refreshed(t) /\ ret[t].loc.status # 200)
       => /\ ret[t].exc = "none" /\ ret[t].val = False
          /\ ret[t].post.tokens = ret[t].pre.tokens
          /\ ret[t].post.auth = ret[t].pre.auth

C3_Witness ==
    \E t \in Tasks :
       /\ Refreshed(t) /\ ret[t].loc.status = 400
       /\ Decodes(ret[t].loc.body)
       /\ ret[t].val = False
       /\ ret[t].pre.auth # NoHeader

\* C4: a refresh_tokens whose token request is answered with 200 writes every
\* field of the answer into the identity token set, leaves the other fields
\* of the set alone, and sets the Authorization header to "Bearer " followed
\* by the access token now stored
C4_AcceptedRefreshMergesAnswer ==
    \A t \in Tasks :
       (Refreshed(t) /\ ret[t].loc.status = 200 /\ Decodes(ret[t].loc.body))
       => LET merged == DictMerge(ret[t].pre.tokens["identity"], ret[t].loc.body)
          IN  /\ ret[t].post.tokens["identity"] = merged
              /\ ret[t].post.auth = Bearer(merged["access_token"])

-----------------------------------------------------------------------------
(* The verbs *)

RECURSIVE Requests(_, _)
\* the requests sent so far by the frame at `i` and by the calls it made
Requests(s, i) == IF i > Len(s) THEN 0 ELSE s[i].reqs + Requests(s, i + 1)

\* a get, post or put as the caller wrote it, not one of its retries
SingleCall(f) == f.fn \in Verbs /\ f.loc.tries = 0

Last(s) == s[Len(s)]
RateLimited(n) == [i \in 1 .. n |-> 429]
OtherErrors == {400, 500}

AtMostFourRequests ==
    \A t \in Tasks :
       /\ \A i \in 1 .. Len(stack[t]) :
             SingleCall(stack[t][i]) => Requests(stack[t], i) <= MAX_RETRIES_ON_RATE_LIMIT + 1
       /\ (ret[t].fn \in Verbs /\ SingleCall(ret[t]))
          => /\ ret[t].reqs <= MAX_RETRIES_ON_RATE_LIMIT + 1
             /\ Len(ret[t].loc.answers) = ret[t].reqs
             /\ \A i \in 1 .. Len(ret[t].loc.answers) - 1 : ret[t].loc.answers[i] = 429

\* C5: one call of get, post or put sends at most 1 + MAX_RETRIES_ON_RATE_LIMIT
\* = 4 requests, each but the first after an answer of 429, and the call ends
\* whatever the server answers, 429 every time included
C5_RateLimitRetriesAreBounded ==
    /\ []AtMostFourRequests
    /\ \A t \in Tasks : (~Idle(t) /\ stack[t][1].fn \in Verbs) ~> Idle(t)

C5_Witness ==
    \E t \in Tasks :
       /\ ret[t].fn \in Verbs /\ SingleCall(ret[t])
       /\ ret[t].reqs = MAX_RETRIES_ON_RATE_LIMIT + 1
       /\ ret[t].loc.answers = RateLimited(MAX_RETRIES_ON_RATE_LIMIT + 1)
       /\ Idle(t)

C7_UnauthorizedLogsOut ==
    \A t \in Tasks :
       (/\ ret[t].fn \in Verbs
        /\ \E i \in 1 .. Len(ret[t].loc.answers) : ret[t].loc.answers[i] = 401)
       => /\ Last(ret[t].loc.answers) = 401
          /\ \A i \in 1 .. Len(ret[t].loc.answers) - 1 : ret[t].loc.answers[i] # 401
          /\ ~ret[t].post.logged_in

-----------------------------------------------------------------------------
(* The session *)

\* C9: in every reachable state, no request of get, post or put is on its way
\* that was sent while the logged-in flag was False
C9_NoRequestWhileLoggedOut ==
    \A t \in Tasks : \A i \in 1 .. Len(stack[t]) :
       (stack[t][i].fn = "_request" /\ stack[t][i].pc = "await")
       => stack[t][i].loc.sent_logged_in

\* C10: between the calls of the public methods, an Authorization header that
\* is present is "Bearer " followed by the access token of the identity token
\* set, and an identity token set exists only after a login that succeeded
C10_HeaderFollowsIdentity ==
    (\A t \in Tasks : Idle(t))
    => /\ auth # NoHeader
          => /\ HasIdentity("access_token")
             /\ auth = Bearer(tokens["identity"]["access_token"])
       /\ "identity" \in DOMAIN tokens => login_ok

-----------------------------------------------------------------------------
(* Concurrency *)

\* a refresh or a login of task t has sent its request and has not returned
Refreshing(t) ==
    \E i \in 1 .. Len(stack[t]) :
       stack[t][i].fn \in {"refresh_tokens", "_login"} /\ stack[t][i].reqs > 0

\* C11: at most one refresh_tokens or login attempt is in flight at any time,
\* also when the vehicle updates that update() started side by side each find
\* the tokens expired or about to expire
C11_OneRefreshInFlight == Cardinality({t \in Tasks : Refreshing(t)}) <= 1

-----------------------------------------------------------------------------
(* The session after a failed refresh *)

\* C12: once validate_tokens has returned invalid because its refresh_tokens
\* returned False, the logged-in flag is False
C12_FailedRefreshLogsOut ==
    \A t \in Tasks :
       (/\ Validated(t) /\ ret[t].loc.refreshes > 0
        /\ ret[t].exc = "none" /\ ret[t].val = False)
       => ~ret[t].post.logged_in

\* C13: every request of get, post or put that is on its way was preceded, in
\* the same operation, by a validate_tokens check
C13_RequestsFollowValidation ==
    \A t \in Tasks : \A i \in 1 .. Len(stack[t]) :
       (stack[t][i].fn = "_request" /\ stack[t][i].pc = "await")
       => \E j \in 1 .. i - 1 : stack[t][j].checks > 0

-----------------------------------------------------------------------------
(* The service status *)

Reported(t) == ret[t].fn = "update_service_status"

\* C14: update_service_status records Up for 200, 204 and 207, Unauthorized
\* for 401, Forbidden for 403, Rate limited for 429, Error for the transport
\* code 1000 and Down for every other code
C14_StatusMappingIsExact ==
    \A t \in Tasks :
       (Reported(t) /\ CategoryOf(ret[t].url) # "unhandled")
       => LET code == ret[t].response_code
              health == service_status[CategoryOf(ret[t].url)]
          IN  /\ code \in {200, 204, 207} <=> health = "Up"
              /\ code = 401 <=> health = "Unauthorized"
              /\ code = 403 <=> health = "Forbidden"
              /\ code = 429 <=> health = "Rate limited"
              /\ code = 1000 <=> health = "Error"
              /\ code \notin {200, 204, 207, 401, 403, 429, 1000} <=> health = "Down"

C14_Witness ==
    \E t \in Tasks :
       /\ Reported(t) /\ ret[t].response_code = 207
       /\ ret[t].url = URL_VEHICLES
       /\ "vehicles" \in DOMAIN ret[t].before /\ ret[t].before["vehicles"] = "Down"
       /\ service_status["vehicles"] = "Up"

-----------------------------------------------------------------------------
\* The requests of one kind that a _login sent
Count(sent, what) == Cardinality({i \in 1 .. Len(sent) : sent[i] = what})

\* _login has just returned to its caller in task t
LoggedIn(t) == ret[t].fn = "_login"

\* C15: the redirect loop after the password step follows at most ten
\* redirects: no _login ever sends an eleventh hop request, and a _login that
\* sent ten of them without meeting a target that starts with the app's
\* redirect URI returns False.
C15_TenRedirectsAbort ==
    \A t \in Tasks :
       /\ \A i \in 1 .. Len(stack[t]) :
             stack[t][i].fn = "_login" => Count(stack[t][i].loc.sent, "hop") <= max_depth
       /\ LoggedIn(t) /\ Count(ret[t].loc.sent, "hop") = max_depth /\ "app" \notin ret[t].loc.seen
             => ret[t].exc = "none" /\ ret[t].val = False

\* C16: a _login whose password step was redirected, at any hop, to a URL
\* with an error parameter returns False and leaves the session logged out;
\* it sent no token exchange request and stored no token set.
C16_ErrorRedirectAbortsLogin ==
    \A t \in Tasks :
       LoggedIn(t) /\ "error" \in ret[t].loc.seen
          => /\ ret[t].exc = "none" /\ ret[t].val = False
             /\ ~ret[t].post.logged_in
             /\ Count(ret[t].loc.sent, "exchange") = 0
             /\ ret[t].post.tokens = ret[t].pre.tokens

\* the token endpoint answered the exchange of _login with a failure
ExchangeRefused(t) ==
    /\ LoggedIn(t) /\ ret[t].loc.exchanged
    /\ ret[t].loc.status # 200 \/ "error" \in DOMAIN ret[t].loc.body

\* C17: when the token exchange is answered with a status other than 200, or
\* with a body that has an error field, _login returns False, the session is
\* not logged in afterwards and carries no Authorization header.
C17_RefusedExchangeFailsLogin ==
    \A t \in Tasks :
       ExchangeRefused(t)
          => /\ ret[t].exc = "none" /\ ret[t].val = False
             /\ ~ret[t].post.logged_in
             /\ ret[t].post.auth = NoHeader

\* a session that was logged in gets an error body with status 200
C17_Witness ==
    \E t \in Tasks :
       /\ ExchangeRefused(t) /\ ret[t].loc.status = 200
       /\ ret[t].pre.logged_in /\ ~logged_in

\* the exchange of _login was answered with a full token set and verify_tokens
\* returned False for its identity token
LoginUnverified(t) ==
    /\ LoggedIn(t) /\ ret[t].loc.exchanged /\ ret[t].loc.status = 200
    /\ {"error"} \cap DOMAIN ret[t].loc.body = {}
    /\ "access_token" \in DOMAIN ret[t].loc.body
    /\ ret[t].loc.verified = False

\* the caller of _login has gone on after taking its result
LoginResultTaken(t) == ~Idle(t) /\ Top(t).pc \notin {"logged", "relogged"}

\* C19: a failed verification of the identity token does not abort the login:
\* _login returns True with the Authorization header set from the new access
\* token, and once its caller, doLogin or update, has taken the result the
\* session is logged in.
C19_UnverifiedLoginStillLogsIn ==
    \A t \in Tasks :
       LoginUnverified(t)
          => /\ ret[t].exc = "none" /\ ret[t].val = True
             /\ ret[t].post.auth = Bearer(ret[t].loc.body["access_token"])
             /\ LoginResultTaken(t) => logged_in

\* C20: update() ends with a boolean and never with an exception, whatever
\* the login, the token check, the refresh or the vehicle updates inside it do.
C20_UpdateReturnsBoolean ==
    \A t \in Tasks :
       ret[t].fn = "update" => ret[t].exc = "none" /\ ret[t].val \in {True, False}

\* C18: an action call whose endpoint answers HTTP 429, to the call and to
\* each of its retries, returns the sentinel {id: None, state: "Throttled"}.
C18_RateLimitedActionIsThrottled ==
    \A t \in Tasks :
       (/\ ret[t].fn \in ActionMethods
        /\ ret[t].loc.answers # <<>>
        /\ \A i \in 1 .. Len(ret[t].loc.answers) : ret[t].loc.answers[i] = 429)
          => ret[t].exc = "none" /\ ret[t].val = Throttled


-----------------------------------------------------------------------------
\* the activation i of task t is an update() that found the session logged out
LoggedOutUpdate(t, i) == stack[t][i].fn = "update" /\ ~stack[t][i].pre.logged_in

\* C21: an update() that finds the session logged out (as a get answered with
\* 401 leaves it) runs _login before any request to the vehicle API, and such
\* a request is sent within it only if that _login returned True.
C21_LoggedOutUpdateLogsInFirst ==
    \A t \in Tasks : \A i \in 1 .. Len(stack[t]) :
       LoggedOutUpdate(t, i)
          => \A j \in i + 1 .. Len(stack[t]) :
                stack[t][j].fn = "_request" => stack[t][i].loc.login = True

\* a get was answered with 401, and the update() after it requests the
\* vehicle's status after its login
C21_Witness ==
    \E t \in Tasks : \E i \in 1 .. Len(stack[t]) :
       /\ LoggedOutUpdate(t, i) /\ stack[t][i].loc.login = True
       /\ \E c \in DOMAIN service_status : service_status[c] = "Unauthorized"
       /\ \E j \in i + 1 .. Len(stack[t]) :
             /\ stack[t][j].fn = "_request" /\ stack[t][j].pc = "await"
             /\ stack[t][j].loc.url = URL_SELECTIVE


-----------------------------------------------------------------------------
(* The pre-emptive refresh *)

\* validate_tokens found both tokens unexpired and one of them expiring within
\* the refresh interval
AboutToExpire(t) ==
    /\ Validated(t)
    /\ ret[t].loc.now < ret[t].loc.id_dt /\ ret[t].loc.now < ret[t].loc.at_dt
    /\ \/ ret[t].loc.later >= ret[t].loc.id_dt
       \/ ret[t].loc.later >= ret[t].loc.at_dt

\* C22: when the clock is before both expiries but the clock plus the refresh
\* interval is at or past one of them, validate_tokens calls refresh_tokens
\* exactly once and returns True when the refresh returned True and False when
\* it returned False.
C22_PreemptiveRefreshDecides ==
    \A t \in Tasks :
       AboutToExpire(t)
          => /\ ret[t].loc.refreshes = 1
             /\ ret[t].exc = "none"
             /\ ret[t].val = ret[t].loc.refreshed

\* the look-ahead instant is exactly the expiry and the refresh fails
C22_Witness ==
    \E t \in Tasks :
       /\ AboutToExpire(t)
       /\ ret[t].loc.later = ret[t].loc.at_dt /\ ret[t].loc.later = ret[t].loc.id_dt
       /\ ret[t].loc.refreshed = False /\ ret[t].val = False


-----------------------------------------------------------------------------
(* The order of the login requests *)

\* the _login activations of task t: those on the stack and the one that
\* returned last
Logins(t) ==
    {stack[t][i].loc : i \in {j \in 1 .. Len(stack[t]) : stack[t][j].fn = "_login"}}
        \cup (IF ret[t].fn = "_login" THEN {ret[t].loc} ELSE {})

\* C23: a _login sends the token exchange request only when the redirect
\* chain ended on a URL that starts with the app's redirect URI; a _login
\* one of whose hops was answered without a Location header sends no token
\* exchange request and returns False.
C23_ExchangeOnlyAfterAppRedirect ==
    \A t \in Tasks :
       /\ \A l \in Logins(t) :
             /\ Count(l.sent, "exchange") > 0 => "app" \in l.ref
             /\ l.dead_end => Count(l.sent, "exchange") = 0
       /\ LoggedIn(t) /\ ret[t].loc.dead_end => ret[t].exc = "none" /\ ret[t].val = False


\* the order in which _login issues its requests
Follows ==
    {<<"discovery", "authorize">>, <<"authorize", "page">>, <<"page", "email">>,
     <<"email", "password">>, <<"password", "hop">>, <<"hop", "hop">>,
     <<"password", "exchange">>, <<"hop", "exchange">>}

InOrder(sent) ==
    /\ sent # <<>> => sent[1] = "discovery"
    /\ \A i \in 1 .. Len(sent) - 1 : <<sent[i], sent[i + 1]>> \in Follows

\* C24: one _login issues its requests in the order discovery, authorization
\* request, login page, email POST, password POST, redirect hops, token
\* exchange; once a step has failed it sends no further request and returns
\* False.
C24_LoginStepsInOrder ==
    \A t \in Tasks :
       /\ \A l \in Logins(t) :
             /\ InOrder(l.sent)
             /\ l.failed > 0 => Len(l.sent) = l.failed
       /\ LoggedIn(t) /\ ret[t].loc.failed > 0 => ret[t].exc = "none" /\ ret[t].val = False


-----------------------------------------------------------------------------
(* Failures of the refresh and of the verification *)

\* a body of the token endpoint that lacks a token the session needs
Incomplete(body) ==
    Decodes(body) /\ ~({"access_token", "id_token"} \subseteq DOMAIN body)

\* the refresh_tokens that returned in task t met one of the failures: no
\* answer (the request raised, or there was no identity token set), a status
\* other than 200, a malformed or incomplete body, or no signing keys
RefreshFailure(t) ==
    \/ ~ret[t].loc.answered
    \/ ret[t].loc.status # 200
    \/ ~Decodes(ret[t].loc.body)
    \/ Incomplete(ret[t].loc.body)
    \/ ret[t].loc.keys = "failed"

\* C25: refresh_tokens never raises, and after each of these failures it
\* returns False and the token sets are as they were, with no identity token
\* set created.
C25_RefreshNeverRaises ==
    \A t \in Tasks :
       ret[t].fn = "refresh_tokens"
          => /\ ret[t].exc = "none"
             /\ RefreshFailure(t)
                   => ret[t].val = False /\ ret[t].post.tokens = ret[t].pre.tokens


\* C26: verify_tokens ends with a boolean and never with an exception,
\* whatever the fetch of the JWKS document, the key lookup and the signature
\* check come to.
C26_VerifyReturnsBoolean ==
    \A t \in Tasks :
       ret[t].fn = "verify_tokens" => ret[t].exc = "none" /\ ret[t].val \in {True, False}


-----------------------------------------------------------------------------
(* The reports of _request *)

\* the code that the _request which ended in task t owes to the status
\* tracker: the status of the response, the code of the HTTP error, or 1000
Owed(t) ==
    IF ret[t].exc = "none" THEN ret[t].loc.status
    ELSE IF ret[t].exc = "ClientResponseError" THEN ret[t].code
    ELSE 1000

\* C27: when _request returns or raises, it has reported exactly one code to
\* update_service_status for that request: the status of the response, the
\* code of the HTTP error, or 1000 for a failure of the transport; the status
\* map shows that report already.
C27_RequestReportsOnce ==
    \A t \in Tasks :
       ret[t].fn = "_request"
          => /\ ret[t].loc.reports = <<Owed(t)>>
             /\ CategoryOf(ret[t].loc.url) # "unhandled"
                   => /\ CategoryOf(ret[t].loc.url) \in DOMAIN service_status
                      /\ service_status[CategoryOf(ret[t].loc.url)] = StatusOf(Owed(t))

\* a request for the vehicles that timed out
C27_Witness ==
    \E t \in Tasks :
       /\ ret[t].fn = "_request" /\ ret[t].exc = "Transport"
       /\ ret[t].loc.url = URL_VEHICLES
       /\ service_status["vehicles"] = "Error"


-----------------------------------------------------------------------------
(* The categories of the service status *)

\* the URL substrings of the tracker and their categories, in the order in
\* which they are tried
Patterns ==
    <<[part |-> "vehicle/v2/vehicles", category |-> "vehicles"],
      [part |-> "parkingposition", category |-> "parkingposition"],
      [part |-> "/vehicle/v1/trips/", category |-> "trips"],
      [part |-> "capabilities", category |-> "capabilities"],
      [part |-> "selectivestatus", category |-> "selectivestatus"],
      [part |-> "token", category |-> "token"]>>

Matching(url) == {i \in 1 .. Len(Patterns) : Patterns[i].part \in url}

FirstMatch(url) == CHOOSE i \in Matching(url) : \A j \in Matching(url) : i <= j

\* the categories whose entry differs between two status maps
Changed(before, after) ==
    {c \in DOMAIN before \cup DOMAIN after :
        ~(c \in DOMAIN before /\ c \in DOMAIN after /\ before[c] = after[c])}

\* C28: a call of update_service_status changes no category but the one of
\* the first substring, in the order vehicles, parkingposition, trips,
\* capabilities, selectivestatus, token, that the URL contains, and changes
\* nothing when the URL contains none of them.
C28_OneCategoryPerReport ==
    \A t \in Tasks :
       Reported(t)
          => IF Matching(ret[t].url) = {}
             THEN service_status = ret[t].before
             ELSE LET c == Patterns[FirstMatch(ret[t].url)].category
                  IN  /\ Changed(ret[t].before, service_status) \subseteq {c}
                      /\ c \in DOMAIN service_status

\* a URL with two of the substrings changes the category of the first one
C28_Witness ==
    \E t \in Tasks :
       /\ Reported(t) /\ Cardinality(Matching(ret[t].url)) = 2
       /\ "token" \in DOMAIN ret[t].before
       /\ Changed(ret[t].before, service_status) = {"parkingposition"}
       /\ service_status["token"] # service_status["parkingposition"]


-----------------------------------------------------------------------------
(* The result of _request *)

\* the decoded body, or the empty mapping when it cannot be decoded
Decoded(body) == IF body = "garbage" THEN Json("empty") ELSE Json(body)

\* C29: a _request that was not asked for the raw response and whose response
\* raised no HTTP error returns {status_code: 204} for status 204, the decoded
\* body (the empty mapping when decoding fails) for another status from 200 to
\* 300, and the empty mapping for every other status.
C29_ResultFollowsStatus ==
    \A t \in Tasks :
       (ret[t].fn = "_request" /\ ret[t].exc = "none" /\ ~ret[t].loc.return_raw)
          => LET status == ret[t].loc.status
             IN  /\ status = 204 => ret[t].val = Envelope(204)
                 /\ status \in 200 .. 300 \ {204} => ret[t].val \in {Decoded(b) : b \in Bodies}
                 /\ status \notin 200 .. 300 => ret[t].val = Json("empty")


-----------------------------------------------------------------------------
(* The record of a refresh *)

\* the status map shows `code` under the token category
TokenRecord(code) ==
    "token" \in DOMAIN service_status /\ service_status["token"] = StatusOf(code)

\* C30: every refresh_tokens that sent its token request has recorded the
\* outcome under the token category when it returns, the status of the answer
\* or the transport code 1000 when the request failed; and while an answer is
\* recorded and not yet merged, the token sets are still as they were.
C30_RefreshRecordsOutcome ==
    \A t \in Tasks :
       /\ (ret[t].fn = "refresh_tokens" /\ ret[t].reqs > 0)
             => TokenRecord(IF ret[t].loc.answered THEN ret[t].loc.status ELSE 1000)
       /\ \A i \in 1 .. Len(stack[t]) :
             (stack[t][i].fn = "refresh_tokens" /\ stack[t][i].pc = "verified")
                => TokenRecord(stack[t][i].loc.status) /\ tokens = stack[t][i].pre.tokens


-----------------------------------------------------------------------------
(* The cookie store *)

\* a login attempt of task t has got past its first lines, or has just returned
LoginBegun(t) ==
    \/ \E i \in DOMAIN stack[t] : stack[t][i].fn = "_login" /\ stack[t][i].pc # "start"
    \/ ret[t].fn = "_login"

\* C31: the cookie store that _request sends is emptied at the start of every
\* login attempt: from the first lines of _login until the attempt has returned
\* (no API request is answered in between) the store holds no cookie, so the
\* first API request after the login sends none of the older cookies.
C31_LoginEmptiesCookieStore ==
    \A t \in Tasks : LoginBegun(t) => jar = EmptyDict


\* every task has issued its call and the call has returned
BatchDone == \A t \in Workers : Idle(t) /\ ret[t].fn \in Verbs

\* the cookies that the successful response to task t's call carried
Received(t) == ret[t].loc.received

\* C32: under any interleaving of concurrent requests no cookie update is lost:
\* once all calls have returned, the shared store holds every cookie name that a
\* successful response carried, with the value of one of the responses that
\* carried that name (a later response overrides an earlier one for the same
\* name only).
C32_NoCookieUpdateLost ==
    BatchDone =>
       \A t \in Workers : \A n \in DOMAIN Received(t) :
          /\ n \in DOMAIN jar
          /\ \E u \in Workers : n \in DOMAIN Received(u) /\ jar[n] = Received(u)[n]

\* two calls have returned whose responses set different cookies, and a third
\* value for a shared name
C32_Witness ==
    /\ BatchDone
    /\ \E t, u \in Workers :
          /\ DOMAIN Received(t) = {"c", "d"} /\ DOMAIN Received(u) = {"c"}
          /\ Received(t)["c"] # Received(u)["c"]
          /\ jar["d"] = Received(t)["d"]


-----------------------------------------------------------------------------
(* The validity checks *)

\* C33: validate_tokens and validate_login return a boolean in every session
\* state, also before any login, when there is no 'identity' token set: they
\* answer False then and do not raise.
C33_ValidityChecksReturnBoolean ==
    \A t \in Tasks :
       ret[t].fn \in {"validate_tokens", "validate_login"} =>
          ret[t].exc = "none" /\ ret[t].val \in {True, False}


-----------------------------------------------------------------------------
(* logout *)

\* the session was logged in and held a refresh token in 'identity'
HeldRefreshToken(s) ==
    /\ s.logged_in
    /\ "identity" \in DOMAIN s.tokens
    /\ "refresh_token" \in DOMAIN s.tokens["identity"]

\* C34: logout() removes the Authorization header and, when the session was
\* logged in and held a refresh token in its 'identity' token set, it has sent
\* a revoke request by the time it returns.
C34_LogoutRevokesRefreshToken ==
    \A t \in Tasks :
       ret[t].fn = "logout" =>
          /\ ret[t].post.auth = NoHeader
          /\ HeldRefreshToken(ret[t].pre) => ret[t].reqs >= 1


-----------------------------------------------------------------------------
(* Locking *)

\* the S-PIN state query was answered with at least three remaining tries
ThreeTriesLeft(state) ==
    /\ state.exc = "none"
    /\ state.val.kind = "json"
    /\ state.val.body \in {"tries3", "tries4"}

\* the activations of setLock of task t whose lock or unlock request is out
Locking(t) ==
    {i \in DOMAIN stack[t] : stack[t][i].fn = "setLock" /\ stack[t][i].pc = "sent"}

\* C35: setLock sends the lock or unlock request only when the S-PIN state
\* query just before it reported at least three remaining tries; when the
\* query fails, reports no remainingTries or fewer than three, setLock raises
\* and no lock or unlock request has been sent.
C35_LockOnlyWithThreeTries ==
    \A t \in Tasks :
       /\ \A i \in Locking(t) : ThreeTriesLeft(stack[t][i].loc.state)
       /\ (ret[t].fn = "setLock" /\ ~ThreeTriesLeft(ret[t].loc.state)) =>
             ret[t].exc # "none" /\ ret[t].loc.answers = <<>>

\* a lock request went out and was answered after exactly three remaining
\* tries were reported
C35_Witness ==
    \E t \in Tasks :
       /\ ret[t].fn = "setLock" /\ ret[t].exc = "none"
       /\ ret[t].loc.state.val = Json("tries3") /\ ret[t].loc.answers = <<200>>


-----------------------------------------------------------------------------
(* The token sets across a failed login *)

\* the token set stored under `client`, or no set at all
TokenSetOf(s, client) == IF client \in DOMAIN s.tokens THEN <<s.tokens[client]>> ELSE <<>>

\* C36: a login attempt that fails at any step, the token endpoint answering
\* 200 with an error body included, leaves the token sets 'Legacy' and
\* 'identity' exactly as they were before the attempt.
C36_FailedLoginKeepsTokens ==
    \A t \in Tasks :
       (ret[t].fn = "_login" /\ ret[t].val # True) =>
          \A client \in {"Legacy", "identity"} :
             TokenSetOf(ret[t].post, client) = TokenSetOf(ret[t].pre, client)


-----------------------------------------------------------------------------
(* update and doLogin calling each other *)

\* the activations of doLogin that run inside the i-th frame of task t
DoLoginsWithin(t, i) == {j \in DOMAIN stack[t] : j > i /\ stack[t][j].fn = "doLogin"}

\* C37: an update() runs at most one full doLogin, whatever the server does:
\* update and doLogin do not keep re-entering each other, so no activation of
\* update ever has more than one activation of doLogin running inside it.
C37_UpdateRunsOneLogin ==
    \A t \in Tasks : \A i \in DOMAIN stack[t] :
       stack[t][i].fn = "update" => Cardinality(DoLoginsWithin(t, i)) <= 1


-----------------------------------------------------------------------------
(* What a positive validation guarantees *)

\* both tokens of the 'identity' set of session s expire strictly after `time`
LiveAfter(s, time) ==
    /\ DecodeExp(s.tokens["identity"]["id_token"]) > time
    /\ DecodeExp(s.tokens["identity"]["access_token"]) > time

\* C38: whenever validate_tokens returns True, the identity token and the
\* access token of 'identity' both expire strictly after the time the check
\* read from the clock, also when the check went through a refresh.
C38_ValidTokensAreLive ==
    \A t \in Tasks :
       (ret[t].fn = "validate_tokens" /\ ret[t].exc = "none" /\ ret[t].val = True) =>
          LiveAfter(ret[t].post, ret[t].loc.now)


-----------------------------------------------------------------------------
(* The Authorization header of concurrent requests *)

\* the requests of task t that are out, sent while the session was logged in
SentLoggedIn(t) ==
    {i \in DOMAIN stack[t] :
        /\ stack[t][i].fn = "_request" /\ stack[t][i].pc = "await"
        /\ stack[t][i].loc.sent_logged_in}

\* C39: every API request that _request sends once a login has succeeded
\* carries an Authorization header (holding the latest access token), under
\* any interleaving with a refresh or a re-login on the same session.
C39_RequestsCarryAuthorization ==
    \A t \in Tasks : \A i \in SentLoggedIn(t) :
       /\ stack[t][i].loc.sent_auth # NoHeader
       /\ \E client \in DOMAIN tokens :
             stack[t][i].loc.sent_auth = Bearer(tokens[client]["access_token"])


-----------------------------------------------------------------------------
(* The dashboard *)

\* the instruments of `list`, in their order, whose support attribute the
\* vehicle has with a true value
RECURSIVE SupportedOf(_, _)
SupportedOf(list, vehicle) ==
    IF list = <<>> THEN <<>>
    ELSE LET name == <<"is_", Head(list).attr, "_supported">>
             rest == SupportedOf(Tail(list), vehicle)
         IN  IF name \in DOMAIN vehicle /\ vehicle[name] = TRUE
             THEN <<Head(list)>> \o rest ELSE rest

\* C40: Dashboard.instruments holds exactly the instruments of
\* create_instruments() whose attribute the vehicle reports as supported
\* (is_<attr>_supported exists and is true), in the original order, and
\* configurate has been called on exactly those.
C40_DashboardKeepsSupported ==
    \A t \in Tasks :
       ret[t].fn = "Dashboard" =>
          /\ ret[t].loc.instruments = SupportedOf(create_instruments, ret[t].loc.vehicle)
          /\ ret[t].loc.configured = ret[t].loc.instruments

\* a dashboard of a vehicle with a supported, an unsupported and a missing
\* attribute, the supported one not the first of the list
C40_Witness ==
    \E t \in Tasks :
       /\ ret[t].fn = "Dashboard"
       /\ ret[t].loc.vehicle =
             (SupportedName("position") :> FALSE) @@ (SupportedName("door_locked") :> TRUE)
       /\ Len(ret[t].loc.instruments) = 1

=============================================================================
